---- MODULE Spec2Model ----
(***************************************************************************)
(* A model of CoreAgent (src/core/Agent.js): the conversation state, the   *)
(* tool-call loop, context-window pruning, metrics and session snapshots.  *)
(*                                                                         *)
(* JavaScript arrays are objects with identity: messageHistory is a        *)
(* reference into `heap`, push mutates the array it points to, while       *)
(* slice and the spread copy allocate a new array.  A processMessage turn  *)
(* is cut at its awaits: every action runs the code between two awaits.    *)
(* Message timestamps (Date.now()) are left out of the messages; their     *)
(* serialized length is counted in the size estimates.                     *)
(***************************************************************************)
EXTENDS Integers, Sequences, FiniteSets, TLC

\* ------------------------------------------------------------------------
\* Bounds of the model and the configuration handed to the constructor.

\* processMessage calls per behaviour
MaxTurns == 2
\* processMessage calls per behaviour where the endpoint asks for every kind
\* of tool call
MaxBatchTurns == 1
\* processMessage calls per behaviour where the caller also saves and loads
\* sessions
MaxSessionTurns == 2
\* tool calls the endpoint requests per behaviour, over all batches
MaxToolCalls == 2
\* processMessage calls per behaviour made while no other call is in flight,
\* and made while another call is suspended
MaxOverlappedTurns == 1
MaxOverlappingTurns == 1
\* direct calls of an editing tool, of a file tool and of a todo tool per
\* behaviour
MaxEditRuns == 1
MaxFileRuns == 2
MaxTodoRuns == 3
\* task ids a TaskManager hands out per behaviour, and of them to tasks made
\* with createTask alone; addDependency calls that may add a dependency
MaxTasks == 6
MaxPlainTasks == 2
MaxDependencies == 1
\* ToolManager.executeTool calls of registered tools per behaviour
MaxExecutions == 3
\* config.contextWindowLimit and config.maxHistoryLength of the modelled agent
contextWindowLimit == 120
maxHistoryLength == 12
\* processMessage calls per behaviour where the caller also puts system
\* messages into the log, and how many of those the log may hold
MaxRequestTurns == 2
MaxSystemMessages == 1
\* processMessage calls per behaviour where the endpoint answers with text or
\* with an error only
MaxMetricsTurns == 4
\* processMessage calls per behaviour where the caller registers several
\* tools under several names
MaxRegistryTurns == 1

\* ------------------------------------------------------------------------
\* Program constants.

\* Math.max(5, ...) in manageContextWindow
MinMessagesToKeep == 5
\* messages.slice(-3) in buildAPIRequest
EmergencyKeep == 3
\* JSON.stringify lengths of the fixed parts of the serialized values
MessageBaseChars == 50
ToolCallsFieldChars == 15
ToolCallBaseChars == 65
RequestBaseChars == 76
RequestToolsFieldChars == 11
RequestMessageBaseChars == 24
ToolIdFieldChars == 18
ToolDefBaseChars == 120
\* config.maxFiles of MultiEditManager
maxFiles == 50

\* ------------------------------------------------------------------------
\* Values.

ArrIds == 1..3

NoSession == [id |-> "none"]

\* What the caller passes to processMessage.
UserInputs ==
  { [type |-> "string", value |-> "hi"],
    [type |-> "string", value |-> ""],
    [type |-> "number", value |-> "7"] }

SystemPrompts == {"", "Be brief."}

\* The tool the caller registers: required fields in declaration order.
EchoTool ==
  [ description |-> "Echo",
    inputSchema |-> [required |-> <<"msg", "tag">>],
    execute |-> "function" ]

ToolNames == {"echo"}

\* Further tools a caller registers: one that requires msg only, and an
\* object without an execute function.
ShoutTool ==
  [ description |-> "Shout",
    inputSchema |-> [required |-> <<"msg">>],
    execute |-> "function" ]

BrokenTool ==
  [ description |-> "Broken",
    inputSchema |-> [required |-> <<>>],
    execute |-> "undefined" ]

RegistryNames == {"echo", "shout"}

\* tool_calls[i].function.arguments strings the endpoint sends.
RawArguments ==
  { "{\"msg\":\"hi\",\"tag\":\"t\"}", "{\"msg\":\"hi\"}", "{}", "null", "oops" }

\* JSON.parse on the argument strings above: an object (its fields), null,
\* or a thrown SyntaxError (message as of the Dockerfile's node 18).
JSONparse(text) ==
  CASE text = "{\"msg\":\"hi\",\"tag\":\"t\"}" ->
         [kind |-> "object", fields |-> [msg |-> "hi", tag |-> "t"]]
    [] text = "{\"msg\":\"hi\"}" ->
         [kind |-> "object", fields |-> [msg |-> "hi"]]
    [] text = "{}" ->
         [kind |-> "object", fields |-> [f \in {} |-> ""]]
    [] text = "null" ->
         [kind |-> "null"]
    [] OTHER ->
         [kind |-> "SyntaxError",
          message |-> "Unexpected token o in JSON at position 0"]

\* JSON.stringify of the values a tool message carries.
JSONstringifyError(message) == "{\"error\":\"" \o message \o "\"}"
\* the echo tool returns {msg: input.msg}
JSONstringifyEcho(fields) == "{\"msg\":\"" \o fields.msg \o "\"}"

ErrorMessages ==
  { "Tool 'echo' not found", "Tool 'nope' not found",
    "Required field 'msg' missing", "Required field 'tag' missing",
    "Cannot use 'in' operator to search for 'msg' in null",
    "Unexpected token o in JSON at position 0",
    "echo failed" }

\* Characters JSON.stringify escapes (the double quotes) in a string.
EscapeCount(s) ==
  CASE s = "{\"msg\":\"hi\",\"tag\":\"t\"}" -> 8
    [] s = "{\"msg\":\"hi\"}" -> 4
    [] s \in { JSONstringifyError(m) : m \in ErrorMessages } -> 4
    [] OTHER -> 0

\* JSON.stringify(s).length for a string s
JSONStringLen(s) == Len(s) + 2 + EscapeCount(s)

RECURSIVE SumSeq(_)
SumSeq(lens) == IF lens = <<>> THEN 0 ELSE Head(lens) + SumSeq(Tail(lens))

\* JSON.stringify(list).length from the serialized lengths of its elements
JSONArrayLen(lens) ==
  2 + SumSeq(lens) + (IF Len(lens) > 1 THEN Len(lens) - 1 ELSE 0)

ToolCallLen(tc) ==
  ToolCallBaseChars + Len(tc.id) + Len(tc.name) + JSONStringLen(tc.arguments) - 2

\* A message of the log: {role, content, timestamp, toolCalls?}
MessageLen(m) ==
  MessageBaseChars + Len(m.role) + JSONStringLen(m.content) - 2
    + (IF "toolCalls" \in DOMAIN m
         THEN ToolCallsFieldChars - 2 + JSONArrayLen([i \in 1..Len(m.toolCalls) |-> ToolCallLen(m.toolCalls[i])])
         ELSE 0)

\* A message of a request: {role, content} or {role, tool_call_id, content}
RequestMessageLen(m) ==
  RequestMessageBaseChars + Len(m.role) + JSONStringLen(m.content) - 2
    + (IF "tool_call_id" \in DOMAIN m
         THEN ToolIdFieldChars + Len(m.tool_call_id)
         ELSE 0)

RequiredFieldLen(f) == Len(f) + 2

VARIABLES
  heap,            \* the arrays: array id -> its elements
  messageHistory,  \* this.messageHistory: an array id
  tools,           \* this.tools: the registered names and their entries
  systemPrompt,    \* this.systemPrompt
  activeSession,   \* this.activeSession, the snapshot the caller holds
  metrics,         \* this.metrics
  pc,              \* where the turn in progress is suspended
  userInput,       \* processMessage's argument
  apiResponse,     \* handleGroqToolCalls' apiResponse (the batch in progress)
  toolIndex,       \* position of the for-of loop over toolCalls
  toolMessages,    \* handleGroqToolCalls' toolMessages
  request,         \* the payload of the fetch in flight
  result,          \* how the last processMessage call settled
  sent,            \* requests this turn has handed to fetch
  appended,        \* messages this turn has passed to addToHistory
  executions,      \* per call of the batch: how often tool.execute ran
  outcomes,        \* per call of the batch: what executing it came to
  lastResponse,    \* the endpoint's latest answer, in short
  toolCallsSeen,   \* tool calls handled so far, over all batches
  savedLog,        \* the log as it was when activeSession was saved
  loaded,          \* set by loadSession: did it change the agent
  started,         \* processMessage calls made so far
  settled,         \* per completed call, in order: did it resolve
  registered,      \* the arguments of the latest registerTool call
  files,           \* the filesystem: resolved path -> text of the file
  dirs,            \* the filesystem: the directories
  currentTodoList, \* this.currentTodoList of the registered TodoTool
  invoked,         \* the latest tool.execute call: the tool and its input
  returned,        \* what that call came to
  runs,            \* tool.execute calls made directly so far
  config,          \* this.config of the ToolManager and of its tools
  overlapping,     \* a processMessage call made while another is suspended
  taskManager,     \* the TaskManager: tasks, workflows, activeWorkflow, taskHistory
  generated,       \* task ids generateTaskId has handed out so far
  savedTasks,      \* the tasks entry of the session file saveSession wrote
  called,          \* the latest call of a manager's method: did it throw
  toolMetrics,     \* this.toolMetrics of the ToolManager: name -> counters
  inFlight         \* ToolManager.executeTool calls awaiting tool.execute

vars ==
  << heap, messageHistory, tools, systemPrompt, activeSession, metrics, pc,
     userInput, apiResponse, toolIndex, toolMessages, request, result, sent,
     appended, executions, outcomes, lastResponse, toolCallsSeen, savedLog,
     loaded, started, settled, registered, files, dirs, currentTodoList,
     invoked, returned, runs, config, overlapping, taskManager, generated,
     savedTasks, called, toolMetrics, inFlight >>

\* The TaskManager of the command line and the session file's tasks entry.
taskVars == << taskManager, generated, savedTasks, called >>

\* The ToolManager's bookkeeping of executeTool.
meterVars == << toolMetrics, inFlight >>

\* What the agent itself never touches.
toolVars ==
  << files, dirs, currentTodoList, invoked, returned, runs, config, taskVars,
     meterVars >>

\* The agent's own state.
agentVars ==
  << heap, messageHistory, tools, systemPrompt, activeSession, metrics, pc,
     userInput, apiResponse, toolIndex, toolMessages, request, result, sent,
     appended, executions, outcomes, lastResponse, toolCallsSeen, savedLog,
     loaded, started, settled, registered, overlapping >>


\* ------------------------------------------------------------------------
\* Arrays.

Log == heap[messageHistory]

SessionArrays(session) ==
  IF session = NoSession THEN {} ELSE {session.messageHistory}

\* A new array object: the least id nothing refers to.
NewArray(roots) ==
  CHOOSE a \in ArrIds \ roots : \A b \in ArrIds \ roots : a <= b

\* Arrays nothing refers to any more are dropped.
Collect(h, roots) == [a \in ArrIds |-> IF a \in roots THEN h[a] ELSE <<>>]

\* Array.prototype.push: in place
push(h, ref, m) == [h EXCEPT ![ref] = Append(@, m)]

\* Array.prototype.slice(-n): the last n elements, as a new array's elements
sliceLast(s, n) ==
  IF Len(s) <= n THEN s ELSE SubSeq(s, Len(s) - n + 1, Len(s))

\* ------------------------------------------------------------------------
\* The tool registry: a Map, kept in insertion order.

toolsHas(registry, name) == \E i \in 1..Len(registry) : registry[i].name = name

toolsGet(registry, name) ==
  registry[CHOOSE i \in 1..Len(registry) : registry[i].name = name].tool

\* Mutant: the registry is a list, every registration adds an entry.
toolsSetAppends(registry, name, tool) ==
  Append(registry, [name |-> name, tool |-> tool])

toolsSet(registry, name, tool) ==
  IF toolsHas(registry, name)
    THEN [i \in 1..Len(registry) |->
            IF registry[i].name = name
              THEN [name |-> name, tool |-> tool] ELSE registry[i]]
    ELSE Append(registry, [name |-> name, tool |-> tool])

getGroqToolDefinitions(registry) ==
  [i \in 1..Len(registry) |->
     [ name |-> registry[i].name,
       description |-> registry[i].tool.description,
       required |-> registry[i].tool.inputSchema.required ]]

ToolDefLen(d) ==
  ToolDefBaseChars + Len(d.name) + Len(d.description)
    + JSONArrayLen([i \in 1..Len(d.required) |-> RequiredFieldLen(d.required[i])]) - 2

\* JSON.stringify(this.getGroqToolDefinitions()).length
ToolDefsLen(registry) ==
  LET defs == getGroqToolDefinitions(registry)
  IN  JSONArrayLen([i \in 1..Len(defs) |-> ToolDefLen(defs[i])])

\* ------------------------------------------------------------------------
\* Conversation state.

Message(role, content, toolCalls) ==
  IF toolCalls = <<>>
    THEN [role |-> role, content |-> content]
    ELSE [role |-> role, content |-> content, toolCalls |-> toolCalls]

addToHistory(h, ref, role, content, toolCalls) ==
  push(h, ref, Message(role, content, toolCalls))

\* Mutant: the filter on the role is left out.
formatMessagesForAPIUnfiltered(log) ==
  [i \in 1..Len(log) |-> [role |-> log[i].role, content |-> log[i].content]]

formatMessagesForAPI(log) ==
  LET kept == SelectSeq(log, LAMBDA m : m.role # "system")
  IN  [i \in 1..Len(kept) |-> [role |-> kept[i].role, content |-> kept[i].content]]

RequestChars(messages, registry) ==
  RequestBaseChars - 2 + JSONArrayLen([i \in 1..Len(messages) |-> RequestMessageLen(messages[i])])
    + (IF Len(registry) > 0
         THEN RequestToolsFieldChars - 2 + ToolDefsLen(registry)
         ELSE 0)

\* requestSize > contextWindowLimit * 0.9, with requestSize = chars / 3.5
RequestTooLarge(messages, registry) ==
  20 * RequestChars(messages, registry) > 63 * contextWindowLimit

\* The system prompts of the model are shorter than the 500 characters
\* substring(0, 500) keeps.
buildAPIRequest(log, prompt, registry) ==
  LET system == [role |-> "system", content |-> prompt]
      messages ==
        (IF prompt # "" THEN <<system>> ELSE <<>>) \o formatMessagesForAPI(log)
      emergencyMessages == sliceLast(messages, EmergencyKeep)
  IN  [ messages |->
          IF RequestTooLarge(messages, registry)
            THEN IF prompt # "" /\ emergencyMessages[1].role # "system"
                   THEN <<system>> \o emergencyMessages
                   ELSE emergencyMessages
            ELSE messages,
        tools |-> getGroqToolDefinitions(registry) ]

\* Mutant: Math.floor(maxHistoryLength / 3) without the Math.max.
messagesToKeepThird == maxHistoryLength \div 3

messagesToKeep ==
  IF maxHistoryLength \div 3 > MinMessagesToKeep
    THEN maxHistoryLength \div 3 ELSE MinMessagesToKeep

\* totalEstimatedTokens > contextWindowLimit * 0.6, each term chars / 3.5
OverBudget(log, prompt, registry) ==
  10 * ( JSONArrayLen([i \in 1..Len(log) |-> MessageLen(log[i])])
         + Len(prompt)
         + (IF Len(registry) > 0 THEN ToolDefsLen(registry) ELSE 0) )
    > 21 * contextWindowLimit

\* Mutant: slice(0, n) for slice(-n), the oldest messages are kept.
recentMessagesOldest(log) ==
  IF Len(log) <= messagesToKeep THEN log ELSE SubSeq(log, 1, messagesToKeep)

\* The log manageContextWindow leaves, given the one it finds.
recentMessages(log) == sliceLast(log, messagesToKeep)

\* manageContextWindow: the heap and the log's array afterwards.
manageContextWindow(h, ref, prompt, registry, session) ==
  IF OverBudget(h[ref], prompt, registry)
    THEN LET a == NewArray({ref} \cup SessionArrays(session))
         IN  [ heap |-> Collect([h EXCEPT ![a] = recentMessages(h[ref])],
                                {a} \cup SessionArrays(session)),
               messageHistory |-> a ]
    ELSE [heap |-> h, messageHistory |-> ref]

\* ------------------------------------------------------------------------
\* Metrics.  successRate is kept as the exact fraction num / den.

RECURSIVE GCD(_, _)
GCD(a, b) == IF b = 0 THEN a ELSE GCD(b, a % b)

Reduce(num, den) ==
  LET g == GCD(num, den)
  IN  IF g = 0 THEN <<0, 1>> ELSE <<num \div g, den \div g>>

\* Mutant: the new sample is averaged with the old rate, unweighted.
updateMetricsUnweighted(m, success) ==
  LET n == m.totalRequests + 1
      rate == Reduce( m.successRateNum
                        + (IF success THEN 100 * m.successRateDen ELSE 0),
                      m.successRateDen * (IF n = 1 THEN 1 ELSE 2) )
  IN  [ totalRequests |-> n,
        totalTokens |-> m.totalTokens,
        successRateNum |-> rate[1],
        successRateDen |-> rate[2] ]

\* Mutant: totalRequests++ sits in the success branch.
updateMetricsCountsSuccesses(m, success) ==
  LET n == m.totalRequests + 1
      rate == Reduce( m.successRateNum * (n - 1)
                        + (IF success THEN 100 * m.successRateDen ELSE 0),
                      m.successRateDen * n )
  IN  [ totalRequests |-> IF success THEN n ELSE m.totalRequests,
        totalTokens |-> m.totalTokens,
        successRateNum |-> rate[1],
        successRateDen |-> rate[2] ]

\* successRate is the real number the arithmetic of the code denotes; the
\* rounding of the floating-point division is not in the model.
updateMetrics(m, success) ==
  LET n == m.totalRequests + 1
      rate == Reduce( m.successRateNum * (n - 1)
                        + (IF success THEN 100 * m.successRateDen ELSE 0),
                      m.successRateDen * n )
  IN  [ totalRequests |-> n,
        totalTokens |-> m.totalTokens,
        successRateNum |-> rate[1],
        successRateDen |-> rate[2] ]


\* ------------------------------------------------------------------------
\* Tools.

\* The first field of `required`, in declaration order, that `fields` lacks
\* (0: none is missing).
FirstMissing(required, fields) ==
  LET missing == { i \in 1..Len(required) : required[i] \notin DOMAIN fields }
  IN  IF missing = {} THEN 0
      ELSE CHOOSE i \in missing : \A j \in missing : i <= j

\* validateToolInput: the message of the error it throws, "" when it returns.
\* `field in input` is a TypeError when input is null.
validateToolInput(input, schema) ==
  IF Len(schema.required) = 0 THEN ""
  ELSE IF input.kind = "null"
    THEN "Cannot use 'in' operator to search for '"
           \o schema.required[1] \o "' in null"
  ELSE LET i == FirstMissing(schema.required, input.fields)
       IN  IF i = 0 THEN ""
           ELSE "Required field '" \o schema.required[i] \o "' missing"

\* Mutant: the registry is searched by description, no name is ever found.
executeToolWrongKey(registry, toolName, input, behaviour) ==
  IF \A i \in 1..Len(registry) : registry[i].tool.description # toolName
    THEN [threw |-> TRUE, executed |-> 0,
          content |-> "Tool '" \o toolName \o "' not found"]
    ELSE [threw |-> FALSE, executed |-> 1,
          content |-> JSONstringifyEcho(input.fields)]

\* executeTool: what the awaited call comes to.  `behaviour` is what the
\* tool's own execute does when it is reached: it returns or it throws.
executeTool(registry, toolName, input, behaviour) ==
  IF ~toolsHas(registry, toolName)
    THEN [threw |-> TRUE, executed |-> 0,
          content |-> "Tool '" \o toolName \o "' not found"]
  ELSE LET tool == toolsGet(registry, toolName)
           invalid == validateToolInput(input, tool.inputSchema)
       IN  IF invalid # ""
             THEN [threw |-> TRUE, executed |-> 0, content |-> invalid]
           ELSE IF behaviour = "throws"
             THEN [threw |-> TRUE, executed |-> 1, content |-> "echo failed"]
           ELSE [threw |-> FALSE, executed |-> 1,
                 content |-> JSONstringifyEcho(input.fields)]

\* The body of the try block for one tool call: JSON.parse, then executeTool.
runToolCall(registry, toolCall, behaviour) ==
  LET input == JSONparse(toolCall.arguments)
  IN  IF input.kind = "SyntaxError"
        THEN [threw |-> TRUE, executed |-> 0, content |-> input.message]
        ELSE executeTool(registry, toolCall.name, input, behaviour)

\* The tool message pushed for a call: by the try block or by its catch.
toolMessage(toolCall, outcome) ==
  [ role |-> "tool",
    tool_call_id |-> toolCall.id,
    content |-> IF outcome.threw
                  THEN JSONstringifyError(outcome.content)
                  ELSE outcome.content ]

\* Mutant: the results reach the history newest first.
RECURSIVE addToolResultsNewestFirst(_, _, _)
addToolResultsNewestFirst(h, ref, msgs) ==
  IF msgs = <<>> THEN h
  ELSE addToolResultsNewestFirst(
         addToHistory(h, ref, msgs[Len(msgs)].role, msgs[Len(msgs)].content, <<>>),
         ref, SubSeq(msgs, 1, Len(msgs) - 1))

\* toolMessages.forEach(msg => this.addToHistory(msg.role, msg.content))
RECURSIVE addToolResults(_, _, _)
addToolResults(h, ref, msgs) ==
  IF msgs = <<>> THEN h
  ELSE addToolResults(
         addToHistory(h, ref, Head(msgs).role, Head(msgs).content, <<>>),
         ref, Tail(msgs))

loggedToolResults(msgs) ==
  [i \in 1..Len(msgs) |-> Message(msgs[i].role, msgs[i].content, <<>>)]

\* ------------------------------------------------------------------------
\* The endpoint.

Usages == {5, 9}

CallKinds ==
  { [name |-> "echo", arguments |-> a] : a \in RawArguments }
    \cup { [name |-> "nope", arguments |-> "{}"] }

CallId(i) == "call_" \o ToString(i)

\* The calls the endpoint asks for in the runs that are about whole turns.
TurnCallKinds ==
  { [name |-> "echo", arguments |-> a] : a \in {"{\"msg\":\"hi\",\"tag\":\"t\"}", "{}"} }

\* The tool_calls lists of at most n calls, each of one of `kinds`.
Batches(kinds, n) ==
  UNION { { [i \in 1..k |-> [id |-> CallId(i), name |-> ks[i].name,
                             arguments |-> ks[i].arguments]] :
              ks \in [1..k -> kinds] } : k \in 0..n }


ErrorResponses ==
  { [ok |-> FALSE, status |-> "429", statusText |-> "Too Many Requests",
     errorMessage |-> "Rate limit reached"],
    [ok |-> FALSE, status |-> "500", statusText |-> "Internal Server Error",
     errorMessage |-> ""] }

\* choices[0].message with its content (null read as "") and tool_calls, and
\* the usage of the response.
OkResponses(kinds, n) ==
  { [ok |-> TRUE, status |-> "200", content |-> c, tool_calls |-> b,
     usage |-> u] : c \in {"", "done"}, b \in Batches(kinds, n), u \in Usages }

NoResponse == [ok |-> FALSE, status |-> "none"]
NoRequest == [messages |-> <<>>, tools |-> <<>>]
NoInput == [type |-> "undefined", value |-> ""]
NoRegistration == [name |-> ""]
\* No call has overlapped another yet.
NoOverlap ==
  [ pc |-> "idle", turns |-> 0, input |-> NoInput, request |-> NoRequest,
    result |-> [state |-> "none"] ]

\* What the model remembers of an answer of the endpoint.
Short(response) ==
  IF response.ok
    THEN [ok |-> TRUE, status |-> response.status, content |-> response.content,
          toolCalls |-> Len(response.tool_calls), usage |-> response.usage]
    ELSE [ok |-> FALSE, status |-> response.status]

\* ------------------------------------------------------------------------
\* Strings, as the JavaScript string methods compute them.

startsWith(s, prefix) ==
  Len(s) >= Len(prefix) /\ SubSeq(s, 1, Len(prefix)) = prefix

endsWith(s, suffix) ==
  Len(s) >= Len(suffix) /\ SubSeq(s, Len(s) - Len(suffix) + 1, Len(s)) = suffix

\* The position (from 1) of the first occurrence of t in s at or after
\* `from`, 0 when there is none.
RECURSIVE indexOf(_, _, _)
indexOf(s, t, from) ==
  IF from + Len(t) - 1 > Len(s) THEN 0
  ELSE IF SubSeq(s, from, from + Len(t) - 1) = t THEN from
  ELSE indexOf(s, t, from + 1)

\* String.prototype.replaceAll(t, r) for a non-empty t
RECURSIVE replaceAll(_, _, _)
replaceAll(s, t, r) ==
  LET i == indexOf(s, t, 1)
  IN  IF i = 0 THEN s
      ELSE SubSeq(s, 1, i - 1) \o r
             \o replaceAll(SubSeq(s, i + Len(t), Len(s)), t, r)

\* String.prototype.replace(t, r) for a string t: the first occurrence
replaceFirst(s, t, r) ==
  LET i == indexOf(s, t, 1)
  IN  IF i = 0 THEN s
      ELSE SubSeq(s, 1, i - 1) \o r \o SubSeq(s, i + Len(t), Len(s))

\* The position of the last occurrence of t in s at or before `from`, 0
\* when there is none.
RECURSIVE lastIndexOf(_, _, _)
lastIndexOf(s, t, from) ==
  IF from < 1 THEN 0
  ELSE IF from + Len(t) - 1 <= Len(s) /\ SubSeq(s, from, from + Len(t) - 1) = t
    THEN from
  ELSE lastIndexOf(s, t, from - 1)

\* String.prototype.split('\n')
RECURSIVE split(_)
split(s) ==
  LET i == indexOf(s, "\n", 1)
  IN  IF i = 0 THEN <<s>>
      ELSE <<SubSeq(s, 1, i - 1)>> \o split(SubSeq(s, i + 1, Len(s)))

\* Array.prototype.join('\n')
RECURSIVE join(_)
join(lines) ==
  IF Len(lines) = 0 THEN ""
  ELSE IF Len(lines) = 1 THEN lines[1]
  ELSE lines[1] \o "\n" \o join(Tail(lines))

\* The upper-case letters the texts of the model hold, and toLowerCase.
lowerOf(c) == IF c = "O" THEN "o" ELSE c

RECURSIVE toLowerCase(_)
toLowerCase(s) ==
  IF Len(s) = 0 THEN ""
  ELSE lowerOf(SubSeq(s, 1, 1)) \o toLowerCase(SubSeq(s, 2, Len(s)))

isDigit(c) == c \in {"0", "1", "2", "3", "4", "5", "6", "7", "8", "9"}

\* The letters, digits and underscore of the texts of the model: \w
isWordChar(c) ==
  \/ isDigit(c)
  \/ c \in { "a", "b", "c", "d", "e", "f", "g", "h", "i", "j", "k", "l", "m",
             "n", "o", "p", "q", "r", "s", "t", "u", "v", "w", "x", "y", "z",
             "O", "_" }

\* ------------------------------------------------------------------------
\* The filesystem the tools work on: resolved path -> text of the file, for
\* the files that exist, and the set of directories.

Max(a, b) == IF a >= b THEN a ELSE b
Min(a, b) == IF a <= b THEN a ELSE b

\* path.resolve, with /work as the working directory
InitialFiles ==
  [ p \in {"/work/a.js", "/work/b.js", "/etc/hosts"} |->
      CASE p = "/work/a.js" -> "function old() {}\nold();"
        [] p = "/work/b.js" -> "import { old } from './a';\nOld"
        [] p = "/etc/hosts" -> "127.0.0.1 localhost" ]

InitialDirs == {"/", "/work", "/etc"}

\* No tool has been called yet.
NoInvocation == [tool |-> ""]
NoReturn == [threw |-> FALSE]

\* The config a ToolManager constructed without arguments has.
DefaultConfig ==
  [ safeMode |-> TRUE, restrictedPaths |-> <<"/etc", "/usr", "/bin", "/sbin">> ]

\* this.currentTodoList of a TodoTool before its first execute: undefined
NoTodoList == [defined |-> FALSE, title |-> "", tasks |-> <<>>]

pathResolve(p) ==
  IF p = "/work/../etc/hosts" THEN "/etc/hosts"
  ELSE IF startsWith(p, "/") THEN p
  ELSE "/work/" \o p

\* path.dirname of a resolved path
RECURSIVE dirname(_)
dirname(p) ==
  IF Len(p) <= 1 THEN "/"
  ELSE IF SubSeq(p, Len(p), Len(p)) = "/"
    THEN (IF Len(p) = 1 THEN "/" ELSE SubSeq(p, 1, Len(p) - 1))
  ELSE dirname(SubSeq(p, 1, Len(p) - 1))

fileExists(f, p) == pathResolve(p) \in DOMAIN f

readFile(f, p) == f[pathResolve(p)]

writeFile(f, p, content) ==
  [q \in DOMAIN f \cup {pathResolve(p)} |->
     IF q = pathResolve(p) THEN content ELSE f[q]]

\* `${file_path}.backup.${Date.now()}`
backupPathOf(p, now) == p \o ".backup." \o ToString(now)

RECURSIVE stripDigits(_)
stripDigits(p) ==
  IF Len(p) > 0 /\ isDigit(SubSeq(p, Len(p), Len(p)))
    THEN stripDigits(SubSeq(p, 1, Len(p) - 1))
    ELSE p

\* backupPath.replace(/\.backup\.\d+$/, '')
originalPathOf(backupPath) ==
  LET stem == stripDigits(backupPath)
  IN  IF Len(stem) < Len(backupPath) /\ endsWith(stem, ".backup.")
        THEN SubSeq(stem, 1, Len(stem) - 8)
        ELSE backupPath

\* ------------------------------------------------------------------------
\* MultiEditTool (multi_edit).

performReplace(content, target, replacement) ==
  replaceAll(content, target, replacement)

performInsert(content, lineNumber, text) ==
  LET lines == split(content)
      insertIndex == Max(0, Min(lineNumber - 1, Len(lines)))
  IN  join(SubSeq(lines, 1, insertIndex) \o <<text>>
             \o SubSeq(lines, insertIndex + 1, Len(lines)))

performDeleteLines(content, startLine, numLines) ==
  LET lines == split(content)
      startIndex == Max(0, startLine - 1)
      endIndex == Min(Len(lines), startIndex + numLines)
  IN  IF endIndex <= startIndex THEN join(lines)
      ELSE join(SubSeq(lines, 1, startIndex)
                  \o SubSeq(lines, endIndex + 1, Len(lines)))

\* parseInt(target) || 1 on the targets of the model
parseIntOr1(target) == IF target = "2" THEN 2 ELSE 1

EditTypes == {"replace", "insert", "append", "prepend", "delete_lines"}

\* The new content of an edit of a known type.
editedContent(content, edit) ==
  CASE edit.edit_type = "replace" ->
         performReplace(content, edit.target, edit.replacement)
    [] edit.edit_type = "insert" ->
         performInsert(content, edit.line_number, edit.replacement)
    [] edit.edit_type = "append" ->
         content \o (IF endsWith(content, "\n") THEN "" ELSE "\n")
           \o edit.replacement
    [] edit.edit_type = "prepend" ->
         edit.replacement
           \o (IF endsWith(edit.replacement, "\n") THEN "" ELSE "\n")
           \o content
    [] edit.edit_type = "delete_lines" ->
         performDeleteLines(content, edit.line_number, parseIntOr1(edit.target))

\* Mutant: the write of the new content is not guarded by dry_run.
performEditAlwaysWrites(f, edit, backup, dry_run, now) ==
  LET exists == fileExists(f, edit.file_path)
  IN  IF ~exists /\ ~edit.create_if_missing
        THEN [ fs |-> f,
               error |-> "File " \o edit.file_path \o " does not exist",
               backup_path |-> "", created |-> FALSE ]
      ELSE
        LET content == IF exists THEN readFile(f, edit.file_path) ELSE ""
            backup_path ==
              IF exists /\ backup /\ ~dry_run
                THEN backupPathOf(edit.file_path, now) ELSE ""
            saved == IF backup_path # ""
                       THEN writeFile(f, backup_path, content) ELSE f
        IN  IF edit.edit_type \notin EditTypes
              THEN [ fs |-> saved,
                     error |-> "Unknown edit type: " \o edit.edit_type,
                     backup_path |-> "", created |-> FALSE ]
            ELSE [ fs |-> writeFile(saved, edit.file_path,
                                    editedContent(content, edit)),
                   error |-> "",
                   backup_path |-> backup_path,
                   created |-> ~exists /\ edit.create_if_missing ]

\* performEdit: the filesystem afterwards, the message of the error thrown
\* ("" when it returns) and the backup_path and created of its result.  The
\* files of the model are smaller than maxFileSize.
performEdit(f, edit, backup, dry_run, now) ==
  LET exists == fileExists(f, edit.file_path)
  IN  IF ~exists /\ ~edit.create_if_missing
        THEN [ fs |-> f,
               error |-> "File " \o edit.file_path \o " does not exist",
               backup_path |-> "", created |-> FALSE ]
      ELSE
        LET content == IF exists THEN readFile(f, edit.file_path) ELSE ""
            backup_path ==
              IF exists /\ backup /\ ~dry_run
                THEN backupPathOf(edit.file_path, now) ELSE ""
            saved == IF backup_path # ""
                       THEN writeFile(f, backup_path, content) ELSE f
        IN  IF edit.edit_type \notin EditTypes
              THEN [ fs |-> saved,
                     error |-> "Unknown edit type: " \o edit.edit_type,
                     backup_path |-> "", created |-> FALSE ]
            ELSE [ fs |-> IF dry_run THEN saved
                          ELSE writeFile(saved, edit.file_path,
                                         editedContent(content, edit)),
                   error |-> "",
                   backup_path |-> backup_path,
                   created |-> ~exists /\ edit.create_if_missing ]

\* restoreFromBackups: a backup that cannot be read is logged and skipped.
RECURSIVE restoreFromBackups(_, _)
restoreFromBackups(f, backupPaths) ==
  IF backupPaths = <<>> THEN f
  ELSE LET backupPath == Head(backupPaths)
           restored ==
             IF fileExists(f, backupPath)
               THEN writeFile(f, originalPathOf(backupPath), readFile(f, backupPath))
               ELSE f
       IN  restoreFromBackups(restored, Tail(backupPaths))

\* The for-of loop of MultiEditTool.execute from edit i on.
RECURSIVE editLoop(_, _, _, _, _, _, _, _)
editLoop(f, edits, i, backup, dry_run, nows, results, backups) ==
  IF i > Len(edits)
    THEN [fs |-> f, error |-> "", results |-> results, backups |-> backups]
  ELSE LET done == performEdit(f, edits[i], backup, dry_run, nows[i])
       IN  IF done.error # ""
             THEN [fs |-> done.fs, error |-> done.error, results |-> results,
                   backups |-> backups]
             ELSE editLoop(done.fs, edits, i + 1, backup, dry_run, nows,
                           Append(results, [ file_path |-> pathResolve(edits[i].file_path),
                                             backup_path |-> done.backup_path,
                                             created |-> done.created ]),
                           IF done.backup_path # ""
                             THEN Append(backups, done.backup_path) ELSE backups)

\* MultiEditTool.execute: the filesystem afterwards and what the call comes
\* to.  nows[i] is Date.now() during edit i.
MultiEditTool_execute(f, input, nows) ==
  IF Len(input.edits) > maxFiles
    THEN [fs |-> f, returned |-> [threw |-> TRUE, error |-> "Too many files to edit"]]
  ELSE LET run == editLoop(f, input.edits, 1, input.backup, input.dry_run, nows,
                           <<>>, <<>>)
       IN  IF run.error # ""
             THEN [ fs |-> IF input.backup /\ Len(run.backups) > 0
                             THEN restoreFromBackups(run.fs, run.backups)
                             ELSE run.fs,
                    returned |-> [threw |-> TRUE, error |-> run.error] ]
             ELSE [ fs |-> run.fs,
                    returned |-> [ threw |-> FALSE, success |-> TRUE,
                                   dry_run |-> input.dry_run,
                                   results |-> run.results,
                                   backups |-> IF input.backup THEN run.backups
                                               ELSE <<>> ] ]

\* ------------------------------------------------------------------------
\* BatchFindReplaceTool (batch_find_replace).  The find texts of the model
\* hold no character that is special in a regular expression, so the search
\* pattern is the text itself under the flags and the optional \b...\b.

\* \b between the characters k and k + 1 of s
isBoundary(s, k) ==
  LET before == k >= 1 /\ isWordChar(SubSeq(s, k, k))
      after == k < Len(s) /\ isWordChar(SubSeq(s, k + 1, k + 1))
  IN  before # after

\* Does the search pattern match s at position i?
matchesAt(s, i, find, case_sensitive, whole_word_only) ==
  /\ i + Len(find) - 1 <= Len(s)
  /\ LET piece == SubSeq(s, i, i + Len(find) - 1)
     IN  IF case_sensitive THEN piece = find
         ELSE toLowerCase(piece) = toLowerCase(find)
  /\ whole_word_only =>
       isBoundary(s, i - 1) /\ isBoundary(s, i + Len(find) - 1)

\* content.match(searchPattern).length, counted from position i
RECURSIVE matchCount(_, _, _, _, _)
matchCount(s, i, find, case_sensitive, whole_word_only) ==
  IF i > Len(s) THEN 0
  ELSE IF matchesAt(s, i, find, case_sensitive, whole_word_only)
    THEN 1 + matchCount(s, i + Len(find), find, case_sensitive, whole_word_only)
  ELSE matchCount(s, i + 1, find, case_sensitive, whole_word_only)

\* content.replace(searchPattern, replace), from position i
RECURSIVE patternReplace(_, _, _, _, _, _)
patternReplace(s, i, find, replace, case_sensitive, whole_word_only) ==
  IF i > Len(s) THEN ""
  ELSE IF matchesAt(s, i, find, case_sensitive, whole_word_only)
    THEN replace \o patternReplace(s, i + Len(find), find, replace,
                                   case_sensitive, whole_word_only)
  ELSE SubSeq(s, i, i) \o patternReplace(s, i + 1, find, replace,
                                         case_sensitive, whole_word_only)

\* The order in which a scan of the working directory meets the files a
\* glob of the model can match.
ReaddirOrder == <<"/work/a.js", "/work/b.js", "/work/new.js">>

\* matchesPattern(filename, "*.js"): the pattern becomes /^.*.js$/i
matchesPattern(filename) ==
  /\ Len(filename) >= 3
  /\ toLowerCase(SubSeq(filename, Len(filename) - 1, Len(filename))) = "js"

\* getFilesFromGlob("*.js")
getFilesFromGlob(f) ==
  SelectSeq(ReaddirOrder, LAMBDA p : p \in DOMAIN f /\ matchesPattern(p))

\* processFile: the filesystem afterwards, the error thrown ("" when it
\* returns) and the changed and backup_path of its result.
processFile(f, filePath, input, now) ==
  IF ~fileExists(f, filePath)
    THEN [fs |-> f, error |-> "ENOENT", changed |-> FALSE, backup_path |-> ""]
  ELSE
    LET content == readFile(f, filePath)
        matches == matchCount(content, 1, input.find, input.case_sensitive,
                              input.whole_word_only)
        backup_path == IF input.backup /\ ~input.dry_run
                         THEN backupPathOf(filePath, now) ELSE ""
        saved == IF backup_path # ""
                   THEN writeFile(f, backup_path, content) ELSE f
        newContent == patternReplace(content, 1, input.find, input.replace,
                                     input.case_sensitive, input.whole_word_only)
    IN  IF matches = 0
          THEN [fs |-> f, error |-> "", changed |-> FALSE, backup_path |-> ""]
          ELSE [ fs |-> IF input.dry_run THEN saved
                        ELSE writeFile(saved, filePath, newContent),
                 error |-> "", changed |-> TRUE, backup_path |-> backup_path ]

\* The for-of loop of BatchFindReplaceTool.execute from file i on: an error
\* of one file becomes its result and the loop goes on.
RECURSIVE fileLoop(_, _, _, _, _, _)
fileLoop(f, fileList, i, input, nows, results) ==
  IF i > Len(fileList) THEN [fs |-> f, results |-> results]
  ELSE LET done == processFile(f, fileList[i], input, nows[i])
       IN  fileLoop(done.fs, fileList, i + 1, input, nows,
                    Append(results,
                           [ file_path |-> fileList[i],
                             success |-> done.error = "",
                             changed |-> done.changed,
                             backup_path |-> done.backup_path ]))

\* BatchFindReplaceTool.execute.  has_files says whether the input has a
\* files array, glob_pattern whether it has a pattern ("*.js" in the model).
BatchFindReplaceTool_execute(f, input, nows) ==
  IF ~input.has_files /\ ~input.glob_pattern
    THEN [ fs |-> f,
           returned |-> [ threw |-> TRUE,
                          error |-> "Either files array or glob_pattern must be provided" ] ]
  ELSE LET fileList == IF input.has_files THEN input.files
                       ELSE getFilesFromGlob(f)
           run == fileLoop(f, fileList, 1, input, nows, <<>>)
       IN  IF Len(fileList) > maxFiles
             THEN [ fs |-> f,
                    returned |-> [threw |-> TRUE, error |-> "Too many files to process"] ]
             ELSE [ fs |-> run.fs,
                    returned |-> [ threw |-> FALSE, success |-> TRUE,
                                   dry_run |-> input.dry_run,
                                   results |-> run.results ] ]

\* ------------------------------------------------------------------------
\* MultiFileRefactorTool (multi_file_refactor).  In the texts of the model
\* white space between two tokens is at most one blank, so \s+ is one blank
\* and \s* is one blank or none.

\* The length of the match of pattern k of renameFunctionAcrossFiles at
\* position i of s, 0 when it does not match there:
\*   1  function\s+NAME\b   2  const\s+NAME\s*=   3  NAME\s*:   4  NAME\(
renameMatchLen(s, i, k, oldName) ==
  LET at(t) == /\ i + Len(t) - 1 <= Len(s)
               /\ SubSeq(s, i, i + Len(t) - 1) = t
      first(ts) == IF Len(ts) >= 1 /\ at(ts[1]) THEN Len(ts[1])
                   ELSE IF Len(ts) >= 2 /\ at(ts[2]) THEN Len(ts[2])
                   ELSE 0
  IN  CASE k = 1 ->
             LET t == "function " \o oldName
             IN  IF at(t) /\ isBoundary(s, i + Len(t) - 1) THEN Len(t) ELSE 0
        [] k = 2 -> first(<<"const " \o oldName \o " =", "const " \o oldName \o "=">>)
        [] k = 3 -> first(<<oldName \o " :", oldName \o ":">>)
        [] k = 4 -> first(<<oldName \o "(">>)

\* newContent.match(pattern).length, counted from position i
RECURSIVE renameMatches(_, _, _, _)
renameMatches(s, i, k, oldName) ==
  IF i > Len(s) THEN 0
  ELSE LET n == renameMatchLen(s, i, k, oldName)
       IN  IF n > 0 THEN 1 + renameMatches(s, i + n, k, oldName)
           ELSE renameMatches(s, i + 1, k, oldName)

\* newContent.replace(pattern, match => match.replace(oldName, newName)),
\* from position i
RECURSIVE renameReplace(_, _, _, _, _)
renameReplace(s, i, k, oldName, newName) ==
  IF i > Len(s) THEN ""
  ELSE LET n == renameMatchLen(s, i, k, oldName)
       IN  IF n > 0
             THEN replaceFirst(SubSeq(s, i, i + n - 1), oldName, newName)
                    \o renameReplace(s, i + n, k, oldName, newName)
             ELSE SubSeq(s, i, i) \o renameReplace(s, i + 1, k, oldName, newName)

\* patterns.forEach of renameFunctionAcrossFiles from pattern k on
RECURSIVE renamePatterns(_, _, _, _, _)
renamePatterns(content, changes, k, oldName, newName) ==
  IF k > 4 THEN [newContent |-> content, changes |-> changes]
  ELSE renamePatterns(renameReplace(content, 1, k, oldName, newName),
                      changes + renameMatches(content, 1, k, oldName),
                      k + 1, oldName, newName)

\* The match of /START.*NAME.*END/ in one line: it begins at the first START
\* and ends with the last END, when NAME lies between them.
lineMatch(line, starts, ends, name) ==
  LET firstOf(t) == indexOf(line, t, 1)
      lastOf(t) == lastIndexOf(line, t, Len(line))
      found == {firstOf(t) : t \in starts} \ {0}
      i == IF found = {} THEN 0
           ELSE CHOOSE x \in found : \A y \in found : x <= y
      startLen == Len(CHOOSE t \in starts : TRUE)
      endLen == Len(CHOOSE t \in ends : TRUE)
      j == IF i = 0 THEN 0 ELSE indexOf(line, name, i + startLen)
      ended == {lastOf(t) : t \in ends}
      k == CHOOSE x \in ended : \A y \in ended : x >= y
  IN  IF i # 0 /\ j # 0 /\ k >= j + Len(name)
        THEN [from |-> i, to |-> k + endLen - 1]
        ELSE [from |-> 0, to |-> 0]

\* One line after replace(pattern, match => match.replace(old, new))
lineReplace(line, starts, ends, oldImport, newImport) ==
  LET m == lineMatch(line, starts, ends, oldImport)
  IN  IF m.from = 0 THEN line
      ELSE SubSeq(line, 1, m.from - 1)
             \o replaceFirst(SubSeq(line, m.from, m.to), oldImport, newImport)
             \o SubSeq(line, m.to + 1, Len(line))

RECURSIVE linesReplace(_, _, _, _, _)
linesReplace(lines, starts, ends, oldImport, newImport) ==
  IF lines = <<>> THEN <<>>
  ELSE <<lineReplace(Head(lines), starts, ends, oldImport, newImport)>>
         \o linesReplace(Tail(lines), starts, ends, oldImport, newImport)

\* One pattern of updateImportsAcrossFiles applied to the content
importPattern(content, changes, starts, ends, oldImport, newImport) ==
  IF \E n \in 1..Len(split(content)) :
       lineMatch(split(content)[n], starts, ends, oldImport).from # 0
    THEN [ newContent |-> join(linesReplace(split(content), starts, ends,
                                            oldImport, newImport)),
           changes |-> changes + 1 ]
    ELSE [newContent |-> content, changes |-> changes]

\* patterns.forEach of updateImportsAcrossFiles:
\*   import.*NAME.*from   and   require\(['"].*NAME.*['"]\)
importPatterns(content, oldImport, newImport) ==
  LET one == importPattern(content, 0, {"import"}, {"from"}, oldImport, newImport)
  IN  importPattern(one.newContent, one.changes,
                    {"require('", "require(\""}, {"')", "\")"},
                    oldImport, newImport)

\* The body of the loop of renameFunctionAcrossFiles and of
\* updateImportsAcrossFiles for one file.
refactorFile(f, filePath, input, now) ==
  IF ~fileExists(f, filePath)
    THEN [fs |-> f, error |-> "ENOENT", changes |-> 0]
  ELSE
    LET content == readFile(f, filePath)
        done == IF input.refactor_type = "rename_function"
                  THEN renamePatterns(content, 0, 1, input.target, input.new_name)
                  ELSE importPatterns(content, input.target, input.new_name)
        saved == IF input.backup /\ ~input.dry_run
                   THEN writeFile(f, backupPathOf(filePath, now), content)
                   ELSE f
    IN  IF done.changes = 0
          THEN [fs |-> f, error |-> "", changes |-> 0]
          ELSE [ fs |-> IF input.dry_run THEN saved
                        ELSE writeFile(saved, filePath, done.newContent),
                 error |-> "", changes |-> done.changes ]

RECURSIVE refactorLoop(_, _, _, _, _)
refactorLoop(f, i, input, nows, results) ==
  IF i > Len(input.files) THEN [fs |-> f, results |-> results]
  ELSE LET done == refactorFile(f, input.files[i], input, nows[i])
       IN  refactorLoop(done.fs, i + 1, input, nows,
                        Append(results,
                               [ file_path |-> input.files[i],
                                 success |-> done.error = "",
                                 changes_made |-> done.changes,
                                 changed |-> done.changes > 0 ]))

\* MultiFileRefactorTool.execute
MultiFileRefactorTool_execute(f, input, nows) ==
  IF input.refactor_type = "rename_function" /\ input.new_name = ""
    THEN [ fs |-> f,
           returned |-> [ threw |-> TRUE,
                          error |-> "new_name required for rename_function" ] ]
  ELSE IF input.refactor_type \notin {"rename_function", "update_imports"}
    THEN [ fs |-> f,
           returned |-> [ threw |-> TRUE,
                          error |-> "Refactor type " \o input.refactor_type
                                      \o " not yet implemented" ] ]
  ELSE LET run == refactorLoop(f, 1, input, nows, <<>>)
       IN  [ fs |-> run.fs,
             returned |-> [ threw |-> FALSE, success |-> TRUE,
                            dry_run |-> input.dry_run,
                            results |-> run.results ] ]

\* ------------------------------------------------------------------------
\* ApplyTemplateTool (apply_template).

\* { ...variables, ...target.variables }
mergeVariables(variables, own) ==
  [ k \in DOMAIN variables \cup DOMAIN own |->
      IF k \in DOMAIN own THEN own[k] ELSE variables[k] ]

\* processTemplate: every {{name}} of a defined variable becomes its value;
\* the values of the model hold no braces.
RECURSIVE processTemplate(_, _, _)
processTemplate(template, variables, names) ==
  IF names = {} THEN template
  ELSE LET name == CHOOSE n \in names : TRUE
       IN  processTemplate(replaceAll(template, "{{" \o name \o "}}", variables[name]),
                           variables, names \ {name})

TemplateModes == {"replace", "append", "prepend", "insert_at_line"}

\* lines.splice(lineNumber - 1, 0, processedTemplate) for lineNumber >= 1
spliceLine(content, lineNumber, text) ==
  LET lines == split(content)
      at == Min(lineNumber - 1, Len(lines))
  IN  join(SubSeq(lines, 1, at) \o <<text>> \o SubSeq(lines, at + 1, Len(lines)))

\* The new content under a known mode.
templatedContent(content, processedTemplate, mode, lineNumber) ==
  CASE mode = "replace" -> processedTemplate
    [] mode = "append" ->
         content \o (IF endsWith(content, "\n") THEN "" ELSE "\n")
           \o processedTemplate
    [] mode = "prepend" ->
         processedTemplate
           \o (IF endsWith(processedTemplate, "\n") THEN "" ELSE "\n")
           \o content
    [] mode = "insert_at_line" -> spliceLine(content, lineNumber, processedTemplate)

\* applyTemplateToFile: a file that does not exist is read as empty and
\* created by the write.  Every input of the model has a line_number.
applyTemplateToFile(f, filePath, processedTemplate, input, now) ==
  LET exists == fileExists(f, filePath)
      content == IF exists THEN readFile(f, filePath) ELSE ""
      saved == IF exists /\ input.backup /\ ~input.dry_run
                 THEN writeFile(f, backupPathOf(filePath, now), content)
                 ELSE f
  IN  IF input.mode \notin TemplateModes
        THEN [ fs |-> saved, error |-> "Unknown template mode: " \o input.mode,
               created |-> FALSE ]
      ELSE [ fs |-> IF input.dry_run THEN saved
                    ELSE writeFile(saved, filePath,
                                   templatedContent(content, processedTemplate,
                                                    input.mode, input.line_number)),
             error |-> "", created |-> ~exists ]

\* The for-of loop of ApplyTemplateTool.execute from target i on.
RECURSIVE templateLoop(_, _, _, _, _)
templateLoop(f, i, input, nows, results) ==
  IF i > Len(input.target_files) THEN [fs |-> f, results |-> results]
  ELSE LET target == input.target_files[i]
           fileVariables == mergeVariables(input.variables, target.variables)
           done == applyTemplateToFile(
                     f, target.file_path,
                     processTemplate(input.template, fileVariables,
                                     DOMAIN fileVariables),
                     input, nows[i])
       IN  templateLoop(done.fs, i + 1, input, nows,
                        Append(results,
                               [ file_path |-> target.file_path,
                                 success |-> done.error = "",
                                 created |-> done.created ]))

\* ApplyTemplateTool.execute
ApplyTemplateTool_execute(f, input, nows) ==
  LET run == templateLoop(f, 1, input, nows, <<>>)
  IN  [ fs |-> run.fs,
        returned |-> [ threw |-> FALSE, success |-> TRUE,
                       dry_run |-> input.dry_run, results |-> run.results ] ]

\* ------------------------------------------------------------------------
\* The file tools a ToolManager registers (read_file, write_file,
\* create_directory, analyze_code).

\* isRestrictedPath of FileReadTool and FileWriteTool
RECURSIVE someStartsWith(_, _)
someStartsWith(resolved, restrictedPaths) ==
  IF restrictedPaths = <<>> THEN FALSE
  ELSE \/ startsWith(resolved, pathResolve(Head(restrictedPaths)))
       \/ someStartsWith(resolved, Tail(restrictedPaths))

isRestrictedPath(cfg, filePath) ==
  someStartsWith(pathResolve(filePath), cfg.restrictedPaths)

\* FileReadTool.execute: what the call comes to
FileReadTool_execute(cfg, f, input) ==
  IF cfg.safeMode /\ isRestrictedPath(cfg, input.file_path)
    THEN [ threw |-> TRUE,
           error |-> "Access to " \o input.file_path \o " is restricted" ]
  ELSE IF ~fileExists(f, input.file_path)
    THEN [ threw |-> TRUE,
           error |-> "File " \o input.file_path \o " does not exist" ]
    ELSE [ threw |-> FALSE, success |-> TRUE,
           content |-> readFile(f, input.file_path),
           path |-> pathResolve(input.file_path) ]

\* The directories fs.mkdir(dir, { recursive: true }) makes sure of.
RECURSIVE ancestors(_)
ancestors(dir) ==
  IF dir = "/" THEN {"/"} ELSE {dir} \cup ancestors(dirname(dir))

\* FileWriteTool.execute: the files and directories afterwards and what the
\* call comes to
FileWriteTool_execute(cfg, f, d, input) ==
  LET resolvedPath == pathResolve(input.file_path)
      made == IF input.create_directories
                THEN d \cup ancestors(dirname(resolvedPath)) ELSE d
  IN  IF cfg.safeMode /\ isRestrictedPath(cfg, input.file_path)
        THEN [ fs |-> f, dirs |-> d,
               returned |-> [ threw |-> TRUE,
                              error |-> "Writing to " \o input.file_path
                                          \o " is restricted" ] ]
      ELSE IF dirname(resolvedPath) \notin made
        THEN [ fs |-> f, dirs |-> d,
               returned |-> [ threw |-> TRUE,
                              error |-> "Failed to write file " \o input.file_path
                                          \o ": ENOENT" ] ]
        ELSE [ fs |-> writeFile(f, input.file_path, input.content),
               dirs |-> made,
               returned |-> [ threw |-> FALSE, success |-> TRUE,
                              path |-> resolvedPath ] ]

\* CreateDirectoryTool.execute: fs.mkdir(directory_path, { recursive })
CreateDirectoryTool_execute(cfg, d, input) ==
  LET resolved == pathResolve(input.directory_path)
      failed(code) ==
        [ dirs |-> d,
          returned |-> [ threw |-> TRUE,
                         error |-> "Failed to create directory "
                                     \o input.directory_path \o ": " \o code ] ]
  IN  IF input.recursive
        THEN [ dirs |-> d \cup ancestors(resolved),
               returned |-> [threw |-> FALSE, success |-> TRUE, path |-> resolved] ]
      ELSE IF resolved \in d THEN failed("EEXIST")
      ELSE IF dirname(resolved) \notin d THEN failed("ENOENT")
      ELSE [ dirs |-> d \cup {resolved},
             returned |-> [threw |-> FALSE, success |-> TRUE, path |-> resolved] ]

\* CodeAnalysisTool.execute with analysis_type 'structure'; of the
\* structure the model keeps totalLines.
CodeAnalysisTool_execute(cfg, f, input) ==
  IF ~fileExists(f, input.file_path)
    THEN [ threw |-> TRUE,
           error |-> "Failed to analyze " \o input.file_path \o ": ENOENT" ]
    ELSE [ threw |-> FALSE, success |-> TRUE, file_path |-> input.file_path,
           totalLines |-> Len(split(readFile(f, input.file_path))) ]

\* ------------------------------------------------------------------------
\* TodoTool (todo_write) and TodoReadTool (todo_read).

\* todoList.tasks.filter(t => t.completed).length
RECURSIVE completedCount(_)
completedCount(tasks) ==
  IF tasks = <<>> THEN 0
  ELSE (IF Head(tasks).completed THEN 1 ELSE 0) + completedCount(Tail(tasks))

\* The lines formatTodoList writes for the tasks; [x] and [ ] stand for the
\* two status marks, the priority mark is left out.
RECURSIVE taskLines(_)
taskLines(tasks) ==
  IF tasks = <<>> THEN ""
  ELSE (IF Head(tasks).completed THEN "[x] " ELSE "[ ] ")
         \o Head(tasks).title \o "\n"
         \o (IF Head(tasks).description # ""
               THEN "   " \o Head(tasks).description \o "\n" ELSE "")
         \o taskLines(Tail(tasks))

\* formatTodoList, without the mark before the title and the rule under the
\* progress line; Math.round of the percentage rounds halves up.
formatTodoList(todoList) ==
  LET completed == completedCount(todoList.tasks)
      total == Len(todoList.tasks)
      progress == IF total > 0 THEN (200 * completed + total) \div (2 * total)
                  ELSE 0
  IN  "\n" \o todoList.title \o "\nProgress: " \o ToString(completed) \o "/"
        \o ToString(total) \o " (" \o ToString(progress) \o "%)\n"
        \o taskLines(todoList.tasks)

\* tasks.find(t => t.id === task_id) and the change made to what it finds:
\* the first task with the id.
RECURSIVE changeFirst(_, _, _, _)
changeFirst(tasks, task_id, input, action) ==
  IF tasks = <<>> THEN <<>>
  ELSE IF Head(tasks).id = task_id
    THEN << IF action = "complete"
              THEN [Head(tasks) EXCEPT !.completed = TRUE]
              ELSE [Head(tasks) EXCEPT
                      !.title = IF input.title # "" THEN input.title ELSE @,
                      !.description = IF input.description # ""
                                        THEN input.description ELSE @] >>
           \o Tail(tasks)
  ELSE <<Head(tasks)>> \o changeFirst(Tail(tasks), task_id, input, action)

\* TodoTool.execute: the currentTodoList of the instance afterwards.  An
\* input field that is absent is "" here; now is Date.now().
TodoTool_currentTodoList(list, input, now) ==
  LET current == IF list.defined THEN list
                 ELSE [defined |-> TRUE, title |-> "Current Tasks", tasks |-> <<>>]
  IN  CASE input.action = "create" ->
             [ defined |-> TRUE,
               title |-> IF input.title # "" THEN input.title ELSE "New Task List",
               tasks |-> input.tasks ]
        [] input.action = "add" ->
             [ current EXCEPT !.tasks =
                 Append(@, [ id |-> ToString(now),
                             title |-> IF input.title # "" THEN input.title
                                       ELSE "New Task",
                             description |-> input.description,
                             completed |-> FALSE ]) ]
        [] input.action \in {"update", "complete"} ->
             [ current EXCEPT !.tasks = changeFirst(@, input.task_id, input,
                                                    input.action) ]
        [] input.action = "remove" ->
             [ current EXCEPT !.tasks =
                 SelectSeq(@, LAMBDA t : t.id # input.task_id) ]
        [] OTHER -> current

\* TodoReadTool.execute: it constructs a TodoTool of its own, and the
\* constructor leaves currentTodoList undefined.
TodoReadTool_execute(list) ==
  LET todoTool == NoTodoList
  IN  IF todoTool.defined
        THEN [ threw |-> FALSE, success |-> TRUE,
               todoList |-> formatTodoList(todoTool) ]
        ELSE [ threw |-> FALSE, success |-> FALSE, todoList |-> "",
               message |-> "No active todo list found" ]

\* ------------------------------------------------------------------------
\* TaskManager.  A task id is the number generateTaskId handed out (its
\* `task_${Date.now()}_${random}` strings are taken to be distinct); the Map of
\* the tasks is a function whose insertion order is the order of the ids.
\* A parentId of 0 and a workflowId of "" stand for undefined.  Of the time
\* stamps only task.completed is kept, as a flag saying that it was set.

Step(id, required) == [id |-> id, required |-> required]

\* initializeDefaultWorkflows
DefaultWorkflows ==
  [ w \in { "code-generation", "code-refactoring", "bug-fixing",
            "feature-development" } |->
      CASE w = "code-generation" ->
             [ name |-> "Code Generation Workflow",
               steps |-> << Step("analyze", TRUE), Step("plan", TRUE),
                            Step("generate", TRUE), Step("test", FALSE),
                            Step("validate", TRUE) >> ]
        [] w = "code-refactoring" ->
             [ name |-> "Code Refactoring Workflow",
               steps |-> << Step("read", TRUE), Step("analyze", TRUE),
                            Step("plan", TRUE), Step("backup", TRUE),
                            Step("refactor", TRUE), Step("test", TRUE),
                            Step("validate", TRUE) >> ]
        [] w = "bug-fixing" ->
             [ name |-> "Bug Fixing Workflow",
               steps |-> << Step("reproduce", TRUE), Step("analyze", TRUE),
                            Step("plan", TRUE), Step("implement", TRUE),
                            Step("test", TRUE), Step("regression", TRUE) >> ]
        [] OTHER ->
             [ name |-> "Feature Development Workflow",
               steps |-> << Step("requirements", TRUE), Step("design", TRUE),
                            Step("plan", TRUE), Step("implement", TRUE),
                            Step("test", TRUE), Step("document", FALSE),
                            Step("review", TRUE) >> ] ]

\* this.activeWorkflow = null
NoActiveWorkflow == [active |-> FALSE]

\* The TaskManager after its constructor.
NewTaskManager ==
  [ tasks |-> <<>>, workflows |-> DefaultWorkflows,
    activeWorkflow |-> NoActiveWorkflow, taskHistory |-> <<>> ]

NoSavedTasks == [saved |-> FALSE]
NoCall == [op |-> "none", threw |-> FALSE]

\* this.workflows.set(id, {...workflow, id, registered})
TaskManager_registerWorkflow(m, id, workflow) ==
  [m EXCEPT !.workflows =
     [ w \in DOMAIN m.workflows \cup {id} |->
         IF w = id THEN workflow ELSE m.workflows[w] ]]

\* createTask: the task object, set in the Map and pushed to its parent.
TaskManager_createTask(m, id, options) ==
  LET task == [ status |-> "pending", progress |-> 0,
                workflowId |-> options.workflowId,
                parentId |-> options.parentId, subtasks |-> <<>>,
                dependencies |-> options.dependencies, completed |-> FALSE ]
      withTask == [ t \in DOMAIN m.tasks \cup {id} |->
                      IF t = id THEN task ELSE m.tasks[t] ]
  IN  [m EXCEPT !.tasks =
         IF task.parentId # 0 /\ task.parentId \in DOMAIN m.tasks
           THEN [withTask EXCEPT ![task.parentId].subtasks = Append(@, id)]
           ELSE withTask]

\* The forEach of startWorkflow: one subtask per step, ids in order.
RECURSIVE createSteps(_, _, _, _, _)
createSteps(m, mainId, workflowId, steps, index) ==
  IF index > steps
    THEN m
    ELSE createSteps(
           TaskManager_createTask(m, mainId + index,
             [workflowId |-> workflowId, parentId |-> mainId,
              dependencies |-> <<>>]),
           mainId, workflowId, steps, index + 1)

\* startWorkflow for a registered workflowId; mainId is the main task's id.
TaskManager_startWorkflow(m, mainId, workflowId) ==
  LET workflow == m.workflows[workflowId]
      withMain == TaskManager_createTask(m, mainId,
                    [workflowId |-> workflowId, parentId |-> 0,
                     dependencies |-> <<>>])
      withSteps == createSteps(withMain, mainId, workflowId,
                               Len(workflow.steps), 1)
  IN  [withSteps EXCEPT !.activeWorkflow =
         [ active |-> TRUE, id |-> workflowId, taskId |-> mainId,
           currentStep |-> 0 ]]

\* parent.subtasks.map(id => this.tasks.get(id)).filter(Boolean), as ids
existingSubtasks(tasks, parentId) ==
  SelectSeq(tasks[parentId].subtasks, LAMBDA id : id \in DOMAIN tasks)

RECURSIVE sumProgress(_, _)
sumProgress(tasks, ids) ==
  IF ids = <<>> THEN 0
  ELSE tasks[Head(ids)].progress + sumProgress(tasks, Tail(ids))

countStatus(tasks, ids, status) ==
  Len(SelectSeq(ids, LAMBDA id : tasks[id].status = status))

\* Math.round of total / count for a total >= 0
roundedAverage(total, count) == (2 * total + count) \div (2 * count)

updateParentProgress(tasks, parentId) ==
  IF parentId \notin DOMAIN tasks \/ tasks[parentId].subtasks = <<>>
    THEN tasks
    ELSE
      LET subtasks == existingSubtasks(tasks, parentId)
          completedSubtasks == countStatus(tasks, subtasks, "completed")
          inProgressSubtasks == countStatus(tasks, subtasks, "in-progress")
      IN  [tasks EXCEPT
             ![parentId].progress =
                roundedAverage(sumProgress(tasks, subtasks), Len(subtasks)),
             ![parentId].status =
                IF completedSubtasks = Len(subtasks) THEN "completed"
                ELSE IF inProgressSubtasks > 0 \/ completedSubtasks > 0
                  THEN "in-progress"
                ELSE @,
             ![parentId].completed =
                IF completedSubtasks = Len(subtasks) THEN TRUE ELSE @]

completeWorkflow(m) ==
  IF ~m.activeWorkflow.active
    THEN m
    ELSE
      LET taskId == m.activeWorkflow.taskId
          completedWorkflow ==
            [ id |-> m.activeWorkflow.id, taskId |-> taskId,
              currentStep |-> m.activeWorkflow.currentStep ]
      IN  [m EXCEPT
             !.tasks = IF taskId \in DOMAIN m.tasks
                         THEN [@ EXCEPT ![taskId].status = "completed",
                                        ![taskId].progress = 100,
                                        ![taskId].completed = TRUE]
                         ELSE @,
             !.taskHistory = Append(@, completedWorkflow),
             !.activeWorkflow = NoActiveWorkflow]

checkWorkflowProgression(m) ==
  IF ~m.activeWorkflow.active
     \/ m.activeWorkflow.taskId \notin DOMAIN m.tasks
     \/ m.activeWorkflow.id \notin DOMAIN m.workflows
    THEN m
    ELSE
      LET subtasks == existingSubtasks(m.tasks, m.activeWorkflow.taskId)
          workflow == m.workflows[m.activeWorkflow.id]
          currentStep == m.activeWorkflow.currentStep
          \* subtasks[currentStep] of a 0-based array
          hasCurrent == currentStep + 1 <= Len(subtasks)
          advanced == [m EXCEPT !.activeWorkflow.currentStep = @ + 1]
      IN  IF hasCurrent /\ m.tasks[subtasks[currentStep + 1]].status = "completed"
            THEN IF currentStep + 1 >= Len(workflow.steps)
                   THEN completeWorkflow(advanced)
                   ELSE IF currentStep + 2 <= Len(subtasks)
                          THEN [advanced EXCEPT
                                  !.tasks[subtasks[currentStep + 2]].status =
                                     "ready"]
                          ELSE advanced
            ELSE m

\* Math.max(0, Math.min(100, progress))
clampProgress(progress) == Max(0, Min(100, progress))

\* updateTaskProgress for a task of the Map; a status of "" is null.
TaskManager_updateTaskProgress(m, taskId, progress, status) ==
  LET task == m.tasks[taskId]
      newProgress == clampProgress(progress)
      given == IF status # "" THEN status ELSE task.status
      auto == newProgress = 100 /\ given # "completed"
      updated == [m.tasks EXCEPT
                    ![taskId].progress = newProgress,
                    ![taskId].status = IF auto THEN "completed" ELSE given,
                    ![taskId].completed = IF auto THEN TRUE ELSE @]
      withParent == IF task.parentId # 0
                      THEN updateParentProgress(updated, task.parentId)
                      ELSE updated
      next == [m EXCEPT !.tasks = withParent]
  IN  IF m.activeWorkflow.active /\ task.parentId = m.activeWorkflow.taskId
        THEN checkWorkflowProgression(next)
        ELSE next

\* completeTask without a result
TaskManager_completeTask(m, taskId) ==
  TaskManager_updateTaskProgress(m, taskId, 100, "completed")

Includes(list, x) == \E i \in 1..Len(list) : list[i] = x

checkTaskReadiness(tasks, taskId) ==
  IF taskId \notin DOMAIN tasks
    THEN tasks
    ELSE
      LET task == tasks[taskId]
          allDependenciesComplete ==
            \A i \in 1..Len(task.dependencies) :
              /\ task.dependencies[i] \in DOMAIN tasks
              /\ tasks[task.dependencies[i]].status = "completed"
      IN  IF allDependenciesComplete /\ task.status = "pending"
            THEN [tasks EXCEPT ![taskId].status = "ready"]
            ELSE tasks

\* addDependency for two tasks of the Map
TaskManager_addDependency(m, taskId, dependsOnTaskId) ==
  LET pushed == IF Includes(m.tasks[taskId].dependencies, dependsOnTaskId)
                  THEN m.tasks
                  ELSE [m.tasks EXCEPT
                          ![taskId].dependencies = Append(@, dependsOnTaskId)]
  IN  [m EXCEPT !.tasks = checkTaskReadiness(pushed, taskId)]

\* exportTasks; the session file holds its JSON, and JSON keeps these plain
\* objects, arrays, strings, numbers and the null as they are.
TaskManager_exportTasks(m) ==
  [ saved |-> TRUE, tasks |-> m.tasks, workflows |-> m.workflows,
    activeWorkflow |-> m.activeWorkflow, taskHistory |-> m.taskHistory ]

\* importTasks: each `if (data.x)` takes an object or an array, empty ones
\* too, and skips a null.
TaskManager_importTasks(m, data) ==
  [ tasks |-> data.tasks,
    workflows |-> data.workflows,
    activeWorkflow |-> IF data.activeWorkflow.active
                         THEN data.activeWorkflow
                         ELSE m.activeWorkflow,
    taskHistory |-> data.taskHistory ]

\* ------------------------------------------------------------------------
\* ToolManager: the registry's counters.  averageExecutionTime is kept as the
\* fraction num / den the floating-point division stands for.

\* registerDefaultTools, in its order
DefaultToolNames ==
  << "read_file", "write_file", "list_files", "search_files",
     "create_directory", "analyze_code", "format_code", "lint_code",
     "run_command", "git_status", "npm_info", "todo_write", "todo_read" >>

NewToolMetrics ==
  [ usageCount |-> 0, successCount |-> 0, errorCount |-> 0,
    averageExecutionTime |-> [num |-> 0, den |-> 1] ]

\* this.toolMetrics.set(name, {...}) of registerTool
ToolManager_registerTool(meters, name) ==
  [ n \in DOMAIN meters \cup {name} |->
      IF n = name THEN NewToolMetrics ELSE meters[n] ]

RECURSIVE registerDefaultTools(_, _)
registerDefaultTools(meters, names) ==
  IF names = <<>>
    THEN meters
    ELSE registerDefaultTools(ToolManager_registerTool(meters, Head(names)),
                              Tail(names))

\* this.toolMetrics after the constructor
NoToolMetrics == registerDefaultTools(<<>>, DefaultToolNames)

\* No executeTool call is awaiting its tool.
NoneInFlight == [ n \in DOMAIN NoToolMetrics |-> 0 ]

\* executeTool up to the await: metrics.usageCount++
usageCounted(meters, name) ==
  [meters EXCEPT ![name].usageCount = @ + 1]

\* executeTool after tool.execute resolved, executionTime after startTime
successCounted(meters, name, executionTime) ==
  [meters EXCEPT
     ![name].successCount = @ + 1,
     ![name].averageExecutionTime =
        [ num |-> @.num * (meters[name].usageCount - 1)
                    + executionTime * @.den,
          den |-> @.den * meters[name].usageCount ]]

errorCountedNowhere(meters, name) == meters

\* executeTool's catch
errorCounted(meters, name) ==
  [meters EXCEPT ![name].errorCount = @ + 1]

\* ------------------------------------------------------------------------
\* The agent after construction.

InitWith(cfg) ==
  /\ heap = [a \in ArrIds |-> <<>>]
  /\ messageHistory = 1
  /\ tools = <<>>
  /\ systemPrompt = ""
  /\ activeSession = NoSession
  /\ metrics = [totalRequests |-> 0, totalTokens |-> 0,
                successRateNum |-> 0, successRateDen |-> 1]
  /\ pc = "idle"
  /\ userInput = NoInput
  /\ apiResponse = NoResponse
  /\ toolIndex = 0
  /\ toolMessages = <<>>
  /\ request = NoRequest
  /\ result = [state |-> "none"]
  /\ sent = 0
  /\ appended = <<>>
  /\ executions = <<>>
  /\ outcomes = <<>>
  /\ lastResponse = NoResponse
  /\ toolCallsSeen = 0
  /\ savedLog = <<>>
  /\ loaded = "no"
  /\ started = 0
  /\ settled = <<>>
  /\ registered = NoRegistration
  /\ files = InitialFiles
  /\ dirs = InitialDirs
  /\ currentTodoList = NoTodoList
  /\ invoked = NoInvocation
  /\ returned = NoReturn
  /\ runs = 0
  /\ config = cfg
  /\ overlapping = NoOverlap
  /\ taskManager = NewTaskManager
  /\ generated = 0
  /\ savedTasks = NoSavedTasks
  /\ called = NoCall
  /\ toolMetrics = NoToolMetrics
  /\ inFlight = NoneInFlight

\* The agent and a ToolManager with the default config.
Init == InitWith(DefaultConfig)

\* The same with a ToolManager whose config may switch safeMode off.
InitTools ==
  \E safeMode \in BOOLEAN :
    InitWith([DefaultConfig EXCEPT !.safeMode = safeMode])

\* The locals of a turn that has settled.
FrameCleared ==
  /\ apiResponse' = NoResponse
  /\ toolIndex' = 0
  /\ toolMessages' = <<>>
  /\ request' = NoRequest
  /\ executions' = <<>>
  /\ outcomes' = <<>>

FrameUnchanged ==
  UNCHANGED << apiResponse, toolIndex, toolMessages, executions, outcomes >>

\* Mutant: a step of a turn empties the registry.
AgentUnchangedButRegistry ==
  /\ tools' = <<>>
  /\ UNCHANGED << systemPrompt, activeSession, savedLog, registered, toolVars,
                  overlapping >>

\* What no step of a turn assigns.
AgentUnchanged ==
  UNCHANGED << tools, systemPrompt, activeSession, savedLog, registered,
               toolVars, overlapping >>

\* processMessage's catch block: updateMetrics(startTime, false), rethrow.
Rejects(message) ==
  /\ metrics' = updateMetrics(metrics, FALSE)
  /\ settled' = Append(settled, FALSE)
  /\ result' = [state |-> "rejected", error |-> message]
  /\ pc' = "idle"
  /\ FrameCleared

\* processMessage's normal end: updateMetrics(startTime, true), return result.
Resolves(value) ==
  /\ metrics' = updateMetrics(metrics, TRUE)
  /\ settled' = Append(settled, TRUE)
  /\ result' = [state |-> "resolved", value |-> value]
  /\ pc' = "idle"
  /\ FrameCleared

\* Mutant: only the type is checked, the empty string passes.
ValidInputTypeOnly(input) == input.type = "string"

\* !userInput || typeof userInput !== 'string', negated
ValidInput(input) == input.type = "string" /\ input.value # ""

\* processMessage up to its first await: validation, addToHistory('user'),
\* manageContextWindow.
processMessage(input) ==
  /\ pc = "idle"
  /\ userInput' = input
  /\ started' = started + 1
  /\ sent' = 0
  /\ loaded' = "no"
  /\ lastResponse' = NoResponse
  /\ AgentUnchanged
  /\ UNCHANGED toolCallsSeen
  /\ IF ~ValidInput(input)
       THEN /\ Rejects("Invalid user input")
            /\ appended' = <<>>
            /\ UNCHANGED << heap, messageHistory >>
       ELSE LET h == addToHistory(heap, messageHistory, "user", input.value, <<>>)
                managed == manageContextWindow(h, messageHistory, systemPrompt,
                                               tools, activeSession)
            IN  /\ heap' = managed.heap
                /\ messageHistory' = managed.messageHistory
                /\ appended' = <<Message("user", input.value, <<>>)>>
                /\ pc' = "managed"
                /\ result' = [state |-> "pending"]
                /\ UNCHANGED << metrics, request, settled >>
                /\ FrameUnchanged

\* buildAPIRequest, then callLLMAPI up to its await of fetch.
callLLMAPI ==
  /\ pc = "managed"
  /\ request' = buildAPIRequest(Log, systemPrompt, tools)
  /\ sent' = sent + 1
  /\ pc' = "fetch"
  /\ loaded' = "no"
  /\ AgentUnchanged
  /\ FrameUnchanged
  /\ UNCHANGED << heap, messageHistory, metrics, userInput, result, appended,
                  lastResponse, toolCallsSeen, started, settled >>

\* Mutant: the thrown error leaves the status out.
ApiErrorMessageWithoutStatus(response) ==
  "API Error: "
    \o (IF response.errorMessage # ""
          THEN response.errorMessage ELSE response.statusText)

ApiErrorMessage(response) ==
  "API Error: " \o response.status \o " - "
    \o (IF response.errorMessage # ""
          THEN response.errorMessage ELSE response.statusText)

\* callLLMAPI when response.ok is false: it throws, the turn rejects.
callLLMAPIFails(response) ==
  /\ pc = "fetch"
  /\ ~response.ok
  /\ lastResponse' = Short(response)
  /\ Rejects(ApiErrorMessage(response))
  /\ loaded' = "no"
  /\ AgentUnchanged
  /\ UNCHANGED << heap, messageHistory, userInput, sent, appended,
                  toolCallsSeen, started >>

\* Mutant: a message with tool calls ends the turn instead of opening a round.
responseBranchEndsOnTools(content, toolCalls) ==
  IF content # "" THEN "text" ELSE "unknown"

\* Which branch of processResponse a message takes.
responseBranch(content, toolCalls) ==
  IF content # "" THEN "text"
  ELSE IF Len(toolCalls) > 0 THEN "tools"
  ELSE "unknown"

\* Mutant: the usage of the response that opened the batch is returned.
returnedUsageOfBatch(response, batch) ==
  IF batch.ok THEN batch.usage ELSE response.usage

\* The usage processResponse returns with the text of `response`.
returnedUsage(response, batch) == response.usage

\* processResponse on the answer to the fetch in flight.
processResponse(response) ==
  /\ pc = "fetch"
  /\ response.ok
  /\ lastResponse' = Short(response)
  /\ loaded' = "no"
  /\ AgentUnchanged
  /\ UNCHANGED << userInput, sent, messageHistory, started >>
  /\ LET branch == responseBranch(response.content, response.tool_calls)
     IN  CASE branch = "text" ->
                /\ heap' = addToHistory(heap, messageHistory, "assistant",
                                        response.content, <<>>)
                /\ appended' =
                     Append(appended, Message("assistant", response.content, <<>>))
                /\ Resolves([type |-> "text", content |-> response.content,
                             usage |-> returnedUsage(response, apiResponse)])
                /\ UNCHANGED toolCallsSeen
           [] branch = "tools" ->
                \* handleGroqToolCalls up to the first await of executeTool
                /\ heap' = addToHistory(heap, messageHistory, "assistant",
                                        response.content, response.tool_calls)
                /\ appended' =
                     Append(appended, Message("assistant", response.content,
                                              response.tool_calls))
                /\ apiResponse' = response
                /\ toolIndex' = 1
                /\ toolMessages' = <<>>
                /\ executions' = <<>>
                /\ outcomes' = <<>>
                /\ toolCallsSeen' = toolCallsSeen + Len(response.tool_calls)
                /\ pc' = "tool"
                /\ UNCHANGED << metrics, result, request, settled >>
           [] OTHER ->
                /\ Resolves([type |-> "unknown", usage |-> response.usage])
                /\ UNCHANGED << heap, appended, toolCallsSeen >>

\* One pass of handleGroqToolCalls' loop: the awaited executeTool settles and
\* its tool message is pushed.  After the last call: the results go to the
\* history, the follow-up request is built and handed to fetch.
executeToolCall(behaviour) ==
  /\ pc = "tool"
  /\ LET toolCalls == apiResponse.tool_calls
         toolCall == toolCalls[toolIndex]
         outcome == runToolCall(tools, toolCall, behaviour)
         msgs == Append(toolMessages, toolMessage(toolCall, outcome))
     IN  /\ toolMessages' = msgs
         /\ executions' = Append(executions, outcome.executed)
         /\ outcomes' = Append(outcomes, outcome)
         /\ toolIndex' = toolIndex + 1
         /\ IF toolIndex < Len(toolCalls)
              THEN UNCHANGED << heap, appended, request, sent, pc >>
              ELSE LET h == addToolResults(heap, messageHistory, msgs)
                       followUpRequest ==
                         buildAPIRequest(h[messageHistory], systemPrompt, tools)
                   IN  /\ heap' = h
                       /\ appended' = appended \o loggedToolResults(msgs)
                       /\ request' =
                            [followUpRequest EXCEPT !.messages = @ \o msgs]
                       /\ sent' = sent + 1
                       /\ pc' = "fetch"
  /\ loaded' = "no"
  /\ AgentUnchanged
  /\ UNCHANGED << messageHistory, metrics, userInput, apiResponse, result,
                  lastResponse, toolCallsSeen, started, settled >>


\* ------------------------------------------------------------------------
\* What the caller does between turns.

TurnUnchanged ==
  UNCHANGED << pc, userInput, apiResponse, toolIndex, toolMessages, request,
               result, sent, appended, executions, outcomes, lastResponse,
               toolCallsSeen, metrics, started, settled, toolVars,
               overlapping >>

\* registerTool: it throws for a tool without an execute function, else it
\* sets the entry of the name.
registerTool(name, tool) ==
  /\ pc = "idle"
  /\ tools' = IF tool.execute # "function" THEN tools
              ELSE toolsSet(tools, name, tool)
  /\ registered' =
       [ name |-> name, tool |-> tool,
         threw |-> tool.execute # "function",
         replaced |-> /\ tool.execute = "function"
                      /\ toolsHas(tools, name)
                      /\ toolsGet(tools, name) # tool ]
  /\ loaded' = "no"
  /\ TurnUnchanged
  /\ UNCHANGED << heap, messageHistory, systemPrompt, activeSession, savedLog >>

setSystemPrompt(prompt) ==
  /\ pc = "idle"
  /\ systemPrompt' = prompt
  /\ loaded' = "no"
  /\ TurnUnchanged
  /\ UNCHANGED << heap, messageHistory, tools, activeSession, savedLog,
                  registered >>

\* this.messageHistory = []
clearHistory ==
  /\ pc = "idle"
  /\ LET a == NewArray({messageHistory} \cup SessionArrays(activeSession))
     IN  /\ messageHistory' = a
         /\ heap' = Collect([heap EXCEPT ![a] = <<>>],
                            {a} \cup SessionArrays(activeSession))
  /\ loaded' = "no"
  /\ TurnUnchanged
  /\ UNCHANGED << tools, systemPrompt, activeSession, savedLog, registered >>

\* Mutant: the array itself is stored, not a copy of it.
aliasArray(h, source, roots) == [heap |-> h, ref |-> source]

\* [...source]: a new array with the elements of h[source].
copyArray(h, source, roots) ==
  LET a == NewArray(roots)
  IN  [heap |-> [h EXCEPT ![a] = h[source]], ref |-> a]

saveSession(sessionId) ==
  /\ pc = "idle"
  /\ LET copy == copyArray(heap, messageHistory,
                           {messageHistory} \cup SessionArrays(activeSession))
         session == [ id |-> sessionId,
                      messageHistory |-> copy.ref,
                      systemPrompt |-> systemPrompt ]
     IN  /\ activeSession' = session
         /\ heap' = Collect(copy.heap, {messageHistory, copy.ref})
  /\ savedLog' = Log
  /\ loaded' = "no"
  /\ TurnUnchanged
  /\ UNCHANGED << messageHistory, tools, systemPrompt, registered >>

\* loadSession with the snapshot the caller got from saveSession.
loadSession(session) ==
  /\ pc = "idle"
  /\ session # NoSession
  /\ LET copy == copyArray(heap, session.messageHistory,
                           {messageHistory, session.messageHistory})
     IN  /\ messageHistory' = copy.ref
         /\ heap' = Collect(copy.heap, {copy.ref, session.messageHistory})
  /\ systemPrompt' = session.systemPrompt
  /\ activeSession' = session
  /\ loaded' = IF Log # savedLog \/ systemPrompt # session.systemPrompt
                 THEN "restored" ELSE "same"
  /\ TurnUnchanged
  /\ UNCHANGED << tools, savedLog, registered >>

\* addToHistory called by the owner of the agent: the method is public and
\* takes any role.
callerAddToHistory(role, content) ==
  /\ pc = "idle"
  /\ heap' = addToHistory(heap, messageHistory, role, content, <<>>)
  /\ loaded' = "no"
  /\ TurnUnchanged
  /\ UNCHANGED << messageHistory, tools, systemPrompt, activeSession, savedLog,
                  registered >>

\* ------------------------------------------------------------------------

\* The turn loop with the tool registrations of the caller.
Next ==
  \/ \E input \in UserInputs :
       metrics.totalRequests < MaxTurns /\ processMessage(input)
  \/ callLLMAPI
  \/ \E response \in ErrorResponses : callLLMAPIFails(response)
  \/ \E response \in OkResponses(TurnCallKinds, MaxToolCalls - toolCallsSeen) :
       processResponse(response)
  \/ \E behaviour \in {"returns", "throws"} : executeToolCall(behaviour)
  \/ \E name \in ToolNames : registerTool(name, EchoTool)

Spec == Init /\ [][Next]_vars

\* The turn loop with an endpoint that asks for every kind of tool call.
NextBatch ==
  \/ \E input \in UserInputs :
       metrics.totalRequests < MaxBatchTurns /\ processMessage(input)
  \/ callLLMAPI
  \/ \E response \in ErrorResponses : callLLMAPIFails(response)
  \/ \E response \in OkResponses(CallKinds, MaxToolCalls - toolCallsSeen) :
       processResponse(response)
  \/ \E behaviour \in {"returns", "throws"} : executeToolCall(behaviour)
  \/ \E name \in ToolNames : registerTool(name, EchoTool)

SpecBatch == Init /\ [][NextBatch]_vars


\* What the endpoint answers in the runs that are about sessions.
SessionResponses(n) ==
  { r \in OkResponses({[name |-> "echo", arguments |-> "{}"]}, n) :
      r.usage = 5 /\ (r.content = "") = (Len(r.tool_calls) > 0) }

\* Turns interleaved with the caller's session operations.
NextSession ==
  \/ \E input \in {i \in UserInputs : ValidInput(i)} :
       metrics.totalRequests < MaxSessionTurns /\ processMessage(input)
  \/ callLLMAPI
  \/ \E response \in SessionResponses(MaxToolCalls - toolCallsSeen) :
       processResponse(response)
  \/ executeToolCall("returns")
  \/ \E prompt \in SystemPrompts : setSystemPrompt(prompt)
  \/ clearHistory
  \/ saveSession("s1")
  \/ loadSession(activeSession)

SpecSession == Init /\ [][NextSession]_vars

\* Turns of a caller that sets the system prompt and also puts system
\* messages into the log.
NextRequest ==
  \/ started < MaxRequestTurns /\ processMessage([type |-> "string", value |-> "hi"])
  \/ callLLMAPI
  \/ \E response \in SessionResponses(MaxToolCalls - toolCallsSeen) :
       processResponse(response)
  \/ executeToolCall("returns")
  \/ \E prompt \in SystemPrompts : setSystemPrompt(prompt)
  \/ \E name \in ToolNames : registerTool(name, EchoTool)
  \/ /\ Cardinality({ i \in 1..Len(Log) : Log[i].role = "system" }) < MaxSystemMessages
     /\ callerAddToHistory("system", "Be kind.")

SpecRequest == Init /\ [][NextRequest]_vars

\* Turns the endpoint answers with a text, with an empty message or with an
\* error: the outcomes the metrics aggregate.
NextMetrics ==
  \/ \E input \in UserInputs :
       started < MaxMetricsTurns /\ processMessage(input)
  \/ callLLMAPI
  \/ \E response \in ErrorResponses : callLLMAPIFails(response)
  \/ \E response \in OkResponses({}, 0) : processResponse(response)

SpecMetrics == Init /\ [][NextMetrics]_vars

\* What the endpoint answers in the runs that are about the registry.
RegistryResponses(n) ==
  { r \in OkResponses({[name |-> "echo", arguments |-> "{\"msg\":\"hi\"}"]}, n) :
      r.usage = 5 /\ (r.content = "") = (Len(r.tool_calls) > 0) }

\* Turns of a caller that registers tools, also under names already taken.
NextRegistry ==
  \/ started < MaxRegistryTurns /\ processMessage([type |-> "string", value |-> "hi"])
  \/ callLLMAPI
  \/ \E response \in RegistryResponses(MaxToolCalls - toolCallsSeen) :
       processResponse(response)
  \/ executeToolCall("returns")
  \/ \E name \in RegistryNames, tool \in {EchoTool, ShoutTool, BrokenTool} :
       registerTool(name, tool)

SpecRegistry == Init /\ [][NextRegistry]_vars

\* ------------------------------------------------------------------------
\* A second processMessage call on the same agent while a call is suspended
\* at its await of fetch or of a tool.  The endpoint answers the second call
\* with a text, with an empty message or with an error.

\* Mutant: the call waits for the call in flight and appends nothing.
overlappingStartWaits(h, ref, prompt, registry, session, input) ==
  [heap |-> h, messageHistory |-> ref]

\* addToHistory('user', userInput) and manageContextWindow of the second
\* call: nothing in processMessage looks at a call in flight.
overlappingStart(h, ref, prompt, registry, session, input) ==
  manageContextWindow(addToHistory(h, ref, "user", input.value, <<>>),
                      ref, prompt, registry, session)

\* processMessage of the second call up to its await of fetch.
processMessageOverlapping(input) ==
  /\ pc \in {"fetch", "tool"}
  /\ overlapping.pc = "idle"
  /\ started' = started + 1
  /\ IF ~ValidInput(input)
       THEN /\ metrics' = updateMetrics(metrics, FALSE)
            /\ settled' = Append(settled, FALSE)
            /\ overlapping' =
                 [ overlapping EXCEPT
                     !.turns = @ + 1, !.input = input, !.request = NoRequest,
                     !.result = [state |-> "rejected",
                                 error |-> "Invalid user input"] ]
            /\ UNCHANGED << heap, messageHistory >>
       ELSE \E managed \in { overlappingStart(heap, messageHistory, systemPrompt,
                                              tools, activeSession, input) } :
              /\ heap' = managed.heap
              /\ messageHistory' = managed.messageHistory
              /\ overlapping' =
                   [ pc |-> "fetch", turns |-> overlapping.turns + 1,
                     input |-> input,
                     request |-> buildAPIRequest(managed.heap[managed.messageHistory],
                                                 systemPrompt, tools),
                     result |-> [state |-> "pending"] ]
              /\ UNCHANGED << metrics, settled >>
  /\ UNCHANGED << tools, systemPrompt, activeSession, pc, userInput, apiResponse,
                  toolIndex, toolMessages, request, result, sent, appended,
                  executions, outcomes, lastResponse, toolCallsSeen, savedLog,
                  loaded, registered, toolVars >>

\* The answer to the fetch of the second call: callLLMAPI throws or
\* processResponse returns, and processMessage settles.
overlappingResponse(response) ==
  /\ overlapping.pc = "fetch"
  /\ IF ~response.ok
       THEN /\ metrics' = updateMetrics(metrics, FALSE)
            /\ settled' = Append(settled, FALSE)
            /\ overlapping' =
                 [ overlapping EXCEPT
                     !.pc = "idle",
                     !.result = [state |-> "rejected",
                                 error |-> ApiErrorMessage(response)] ]
            /\ UNCHANGED heap
       ELSE /\ responseBranch(response.content, response.tool_calls) # "tools"
            /\ metrics' = updateMetrics(metrics, TRUE)
            /\ settled' = Append(settled, TRUE)
            /\ heap' = IF response.content # ""
                         THEN addToHistory(heap, messageHistory, "assistant",
                                           response.content, <<>>)
                         ELSE heap
            /\ overlapping' =
                 [ overlapping EXCEPT
                     !.pc = "idle",
                     !.result = [ state |-> "resolved",
                                  value |-> IF response.content # ""
                                              THEN [type |-> "text",
                                                    content |-> response.content,
                                                    usage |-> response.usage]
                                              ELSE [type |-> "unknown",
                                                    usage |-> response.usage] ] ]
  /\ UNCHANGED << messageHistory, tools, systemPrompt, activeSession, pc,
                  userInput, apiResponse, toolIndex, toolMessages, request,
                  result, sent, appended, executions, outcomes, lastResponse,
                  toolCallsSeen, savedLog, loaded, started, registered,
                  toolVars >>

\* Two callers of one agent.
NextOverlap ==
  \/ /\ started - overlapping.turns < MaxOverlappedTurns
     /\ processMessage([type |-> "string", value |-> "hi"])
  \/ callLLMAPI
  \/ \E response \in SessionResponses(MaxToolCalls - toolCallsSeen) :
       processResponse(response)
  \/ executeToolCall("returns")
  \/ \E name \in ToolNames : registerTool(name, EchoTool)
  \/ \E input \in UserInputs :
       overlapping.turns < MaxOverlappingTurns /\ processMessageOverlapping(input)
  \/ \E response \in OkResponses({}, 0) \cup ErrorResponses :
       overlappingResponse(response)

SpecOverlap == Init /\ [][NextOverlap]_vars

\* ------------------------------------------------------------------------
\* Direct calls of the tools' execute.

Invokes(tool, input, out) ==
  /\ runs' = runs + 1
  /\ invoked' = [tool |-> tool, input |-> input]
  /\ returned' = out
  /\ UNCHANGED agentVars
  /\ UNCHANGED << config, taskVars, meterVars >>

\* Date.now() during each step of the loop of one call: a clock that ticks
\* between the steps, and one that stands still for the whole call.
Ticking == <<10 * (runs + 1), 10 * (runs + 1) + 1, 10 * (runs + 1) + 2>>
Standing == <<10 * (runs + 1), 10 * (runs + 1), 10 * (runs + 1)>>

multi_edit(input, nows) ==
  \E out \in {MultiEditTool_execute(files, input, nows)} :
      /\ files' = out.fs
      /\ Invokes("multi_edit", input, out.returned)
      /\ UNCHANGED << dirs, currentTodoList >>

batch_find_replace(input, nows) ==
  \E out \in {BatchFindReplaceTool_execute(files, input, nows)} :
      /\ files' = out.fs
      /\ Invokes("batch_find_replace", input, out.returned)
      /\ UNCHANGED << dirs, currentTodoList >>

multi_file_refactor(input, nows) ==
  \E out \in {MultiFileRefactorTool_execute(files, input, nows)} :
      /\ files' = out.fs
      /\ Invokes("multi_file_refactor", input, out.returned)
      /\ UNCHANGED << dirs, currentTodoList >>

apply_template(input, nows) ==
  \E out \in {ApplyTemplateTool_execute(files, input, nows)} :
      /\ files' = out.fs
      /\ Invokes("apply_template", input, out.returned)
      /\ UNCHANGED << dirs, currentTodoList >>

read_file(input) ==
  /\ Invokes("read_file", input, FileReadTool_execute(config, files, input))
  /\ UNCHANGED << files, dirs, currentTodoList >>

write_file(input) ==
  \E out \in {FileWriteTool_execute(config, files, dirs, input)} :
      /\ files' = out.fs
      /\ dirs' = out.dirs
      /\ Invokes("write_file", input, out.returned)
      /\ UNCHANGED currentTodoList

create_directory(input) ==
  \E out \in {CreateDirectoryTool_execute(config, dirs, input)} :
      /\ dirs' = out.dirs
      /\ Invokes("create_directory", input, out.returned)
      /\ UNCHANGED << files, currentTodoList >>

analyze_code(input) ==
  /\ Invokes("analyze_code", input, CodeAnalysisTool_execute(config, files, input))
  /\ UNCHANGED << files, dirs, currentTodoList >>

todo_write(input, now) ==
  /\ currentTodoList' = TodoTool_currentTodoList(currentTodoList, input, now)
  /\ Invokes("todo_write", input,
             [ threw |-> FALSE, success |-> TRUE, action |-> input.action,
               todoList |-> formatTodoList(currentTodoList') ])
  /\ UNCHANGED << files, dirs >>

todo_read ==
  /\ Invokes("todo_read", [action |-> "read"], TodoReadTool_execute(currentTodoList))
  /\ UNCHANGED << files, dirs, currentTodoList >>

\* The edits the calls of multi_edit are made of.
Edit(file_path, edit_type, target, replacement, line_number, create_if_missing) ==
  [ file_path |-> file_path, edit_type |-> edit_type, target |-> target,
    replacement |-> replacement, line_number |-> line_number,
    create_if_missing |-> create_if_missing ]

EditLists ==
  LET replaceA == Edit("a.js", "replace", "old", "renamed", 1, FALSE)
      insertA == Edit("a.js", "insert", "", "// x", 2, FALSE)
      appendA == Edit("a.js", "append", "", "end();", 1, FALSE)
      prependA == Edit("a.js", "prepend", "", "// top", 1, FALSE)
      deleteA == Edit("a.js", "delete_lines", "1", "", 1, FALSE)
      rewriteA == Edit("a.js", "rewrite", "old", "new", 1, FALSE)
      createNew == Edit("new.js", "append", "", "x", 1, TRUE)
      missingNew == Edit("new.js", "append", "", "x", 1, FALSE)
      replaceB == Edit("/work/b.js", "replace", "old", "new", 1, FALSE)
  IN  { <<e>> : e \in { replaceA, insertA, appendA, prependA, deleteA,
                        rewriteA, createNew, missingNew, replaceB } }
        \cup { <<replaceA, rewriteA>>, <<replaceA, insertA>>,
               <<replaceB, missingNew>>, <<createNew, rewriteA>>,
               <<replaceA, replaceB>>, <<replaceA, insertA, missingNew>> }

MultiEditInputs ==
  { [edits |-> edits, backup |-> backup, dry_run |-> dry_run] :
      edits \in EditLists, backup \in BOOLEAN, dry_run \in BOOLEAN }

BatchFindReplaceInputs ==
  { [ find |-> "old", replace |-> "new", has_files |-> source.has_files,
      files |-> source.files, glob_pattern |-> source.glob_pattern,
      case_sensitive |-> case_sensitive, whole_word_only |-> whole_word_only,
      backup |-> backup, dry_run |-> dry_run ] :
      source \in { [has_files |-> TRUE, files |-> <<"a.js", "b.js">>,
                    glob_pattern |-> FALSE],
                   [has_files |-> TRUE, files |-> <<"gone.js", "/etc/hosts">>,
                    glob_pattern |-> FALSE],
                   [has_files |-> FALSE, files |-> <<>>, glob_pattern |-> TRUE],
                   [has_files |-> FALSE, files |-> <<>>, glob_pattern |-> FALSE] },
      case_sensitive \in BOOLEAN, whole_word_only \in BOOLEAN,
      backup \in BOOLEAN, dry_run \in BOOLEAN }

MultiFileRefactorInputs ==
  { [ refactor_type |-> refactor_type, target |-> "old", new_name |-> new_name,
      files |-> targets, backup |-> backup, dry_run |-> dry_run ] :
      refactor_type \in {"rename_function", "update_imports", "extract_function"},
      new_name \in {"", "renamed"},
      targets \in {<<"a.js", "b.js">>, <<"gone.js", "b.js">>},
      backup \in BOOLEAN, dry_run \in BOOLEAN }

ApplyTemplateInputs ==
  { [ template |-> "// {{name}} {{year}}", variables |-> [name |-> "v"],
      target_files |-> targets, mode |-> mode, line_number |-> 2,
      backup |-> backup, dry_run |-> dry_run ] :
      targets \in { << [file_path |-> "a.js", variables |-> <<>>] >>,
                    << [file_path |-> "new.js", variables |-> [name |-> "w"]],
                       [file_path |-> "a.js", variables |-> <<>>] >> },
      mode \in TemplateModes \cup {"merge"},
      backup \in BOOLEAN, dry_run \in BOOLEAN }

\* A caller of the four editing tools.
NextEdit ==
  \/ \E input \in MultiEditInputs, nows \in {Ticking, Standing} :
       runs < MaxEditRuns /\ multi_edit(input, nows)
  \/ \E input \in BatchFindReplaceInputs, nows \in {Ticking} :
       runs < MaxEditRuns /\ batch_find_replace(input, nows)
  \/ \E input \in MultiFileRefactorInputs, nows \in {Ticking} :
       runs < MaxEditRuns /\ multi_file_refactor(input, nows)
  \/ \E input \in ApplyTemplateInputs, nows \in {Ticking} :
       runs < MaxEditRuns /\ apply_template(input, nows)

SpecEdit == Init /\ [][NextEdit]_vars

FilePaths == {"a.js", "/etc/hosts", "/work/../etc/hosts", "gone.js"}

\* A caller of the file tools of a ToolManager.
NextFiles ==
  \/ \E file_path \in FilePaths :
       runs < MaxFileRuns /\ read_file([file_path |-> file_path])
  \/ \E file_path \in {"notes/n.txt", "/etc/x.conf"},
        create_directories \in BOOLEAN :
       /\ runs < MaxFileRuns
       /\ write_file([ file_path |-> file_path, content |-> "x",
                       create_directories |-> create_directories ])
  \/ \E directory_path \in {"out", "/etc/cron.d", "/usr/local/x", "/work"},
        recursive \in BOOLEAN :
       /\ runs < MaxFileRuns
       /\ create_directory([ directory_path |-> directory_path,
                             recursive |-> recursive ])
  \/ \E file_path \in FilePaths :
       runs < MaxFileRuns /\ analyze_code([file_path |-> file_path])

SpecFiles == InitTools /\ [][NextFiles]_vars

TodoInputs ==
  { [ action |-> "create", title |-> "Plan", description |-> "", task_id |-> "",
      tasks |-> <<>> ],
    [ action |-> "create", title |-> "", description |-> "", task_id |-> "",
      tasks |-> << [ id |-> "", title |-> "Seed", description |-> "",
                     completed |-> FALSE ] >> ],
    [ action |-> "add", title |-> "Write", description |-> "the docs",
      task_id |-> "", tasks |-> <<>> ],
    [ action |-> "update", title |-> "Rewrite", description |-> "",
      task_id |-> "10", tasks |-> <<>> ],
    [ action |-> "complete", title |-> "", description |-> "",
      task_id |-> "10", tasks |-> <<>> ],
    [ action |-> "remove", title |-> "", description |-> "", task_id |-> "10",
      tasks |-> <<>> ] }

\* A caller of todo_write and todo_read of one ToolManager.
NextTodo ==
  \/ \E input \in TodoInputs, now \in {10, 10 + runs} :
       runs < MaxTodoRuns /\ todo_write(input, now)
  \/ runs < MaxTodoRuns /\ todo_read

SpecTodo == Init /\ [][NextTodo]_vars

\* ------------------------------------------------------------------------
\* Calls of the TaskManager's methods.

\* What every call of a method leaves alone, and the record of the call.
TaskCalls(op, threw) ==
  /\ called' = [op |-> op, threw |-> threw]
  /\ UNCHANGED << agentVars, files, dirs, currentTodoList, invoked, returned,
                  runs, config, meterVars >>

registerWorkflow(id, workflow) ==
  /\ taskManager' = TaskManager_registerWorkflow(taskManager, id, workflow)
  /\ TaskCalls("registerWorkflow", FALSE)
  /\ UNCHANGED << generated, savedTasks >>

createTask(options) ==
  /\ generated < MaxTasks
  /\ taskManager' = TaskManager_createTask(taskManager, generated + 1, options)
  /\ generated' = generated + 1
  /\ TaskCalls("createTask", FALSE)
  /\ UNCHANGED savedTasks

startWorkflow(workflowId) ==
  IF workflowId \notin DOMAIN taskManager.workflows
    THEN /\ TaskCalls("startWorkflow", TRUE)
         /\ UNCHANGED << taskManager, generated, savedTasks >>
    ELSE
      LET steps == Len(taskManager.workflows[workflowId].steps)
      IN  /\ generated + 1 + steps <= MaxTasks
          /\ taskManager' =
               TaskManager_startWorkflow(taskManager, generated + 1, workflowId)
          /\ generated' = generated + 1 + steps
          /\ TaskCalls("startWorkflow", FALSE)
          /\ UNCHANGED savedTasks

updateTaskProgress(taskId, progress, status) ==
  /\ IF taskId \notin DOMAIN taskManager.tasks
       THEN /\ TaskCalls("updateTaskProgress", TRUE)
            /\ UNCHANGED taskManager
       ELSE /\ taskManager' = TaskManager_updateTaskProgress(
                                taskManager, taskId, progress, status)
            /\ TaskCalls("updateTaskProgress", FALSE)
  /\ UNCHANGED << generated, savedTasks >>

completeTask(taskId) ==
  /\ IF taskId \notin DOMAIN taskManager.tasks
       THEN /\ TaskCalls("completeTask", TRUE)
            /\ UNCHANGED taskManager
       ELSE /\ taskManager' = TaskManager_completeTask(taskManager, taskId)
            /\ TaskCalls("completeTask", FALSE)
  /\ UNCHANGED << generated, savedTasks >>

addDependency(taskId, dependsOnTaskId) ==
  /\ IF taskId \notin DOMAIN taskManager.tasks
        \/ dependsOnTaskId \notin DOMAIN taskManager.tasks
       THEN /\ TaskCalls("addDependency", TRUE)
            /\ UNCHANGED taskManager
       ELSE /\ taskManager' = TaskManager_addDependency(
                                taskManager, taskId, dependsOnTaskId)
            /\ TaskCalls("addDependency", FALSE)
  /\ UNCHANGED << generated, savedTasks >>

\* exportTasks, its value kept as the session file keeps it
exportTasks ==
  /\ savedTasks' = TaskManager_exportTasks(taskManager)
  /\ TaskCalls("exportTasks", FALSE)
  /\ UNCHANGED << taskManager, generated >>

\* importTasks of the value kept
importTasks ==
  /\ savedTasks.saved
  /\ taskManager' = TaskManager_importTasks(taskManager, savedTasks)
  /\ TaskCalls("importTasks", FALSE)
  /\ UNCHANGED << generated, savedTasks >>

TaskIds == 1..MaxTasks

dependencyCount ==
  SumSeq([ i \in 1..Cardinality(DOMAIN taskManager.tasks) |->
             Len(taskManager.tasks[i].dependencies) ])

PlainTask == [workflowId |-> "", parentId |-> 0, dependencies |-> <<>>]

ReviewWorkflow ==
  [ name |-> "Review",
    steps |-> << Step("check", TRUE), Step("sign", TRUE) >> ]

\* A caller that runs the code-generation workflow.
NextWorkflow ==
  \/ \E workflowId \in {"code-generation", "missing"} :
       startWorkflow(workflowId)
  \/ \E taskId \in TaskIds, status \in {"", "in-progress"} :
       updateTaskProgress(taskId, 50, status)
  \/ \E taskId \in TaskIds : completeTask(taskId)

SpecWorkflow == Init /\ [][NextWorkflow]_vars

\* A caller that creates tasks and makes them depend on each other.
NextDependency ==
  \/ generated < MaxPlainTasks /\ createTask(PlainTask)
  \/ \E taskId \in TaskIds, dependsOnTaskId \in TaskIds :
       dependencyCount < MaxDependencies
         /\ addDependency(taskId, dependsOnTaskId)
  \/ \E taskId \in TaskIds : updateTaskProgress(taskId, 100, "")
  \/ \E taskId \in TaskIds : completeTask(taskId)

SpecDependency == Init /\ [][NextDependency]_vars

\* A caller that keeps the exported tasks and imports them later, as
\* saveSession and loadSession of the command line do.
NextImport ==
  \/ registerWorkflow("review", ReviewWorkflow)
  \/ startWorkflow("review")
  \/ \E taskId \in TaskIds : completeTask(taskId)
  \/ exportTasks
  \/ importTasks

SpecImport == Init /\ [][NextImport]_vars

\* ------------------------------------------------------------------------
\* Calls of ToolManager.executeTool.  A call of a registered tool is suspended
\* at `await tool.execute(input)` until the tool resolves or rejects.

MeterUnchanged ==
  UNCHANGED << agentVars, files, dirs, currentTodoList, invoked, returned,
               runs, config, taskManager, generated, savedTasks >>

\* executeTool up to the await, or to the throw for a name not registered
ToolManager_executeTool(name) ==
  /\ IF name \notin DOMAIN toolMetrics
       THEN /\ called' = [op |-> "executeTool", threw |-> TRUE]
            /\ UNCHANGED << toolMetrics, inFlight >>
       ELSE /\ called' = [op |-> "executeTool", threw |-> FALSE]
            /\ toolMetrics' = usageCounted(toolMetrics, name)
            /\ inFlight' = [inFlight EXCEPT ![name] = @ + 1]
  /\ MeterUnchanged

\* tool.execute resolved: the rest of the try block
toolResolves(name, executionTime) ==
  /\ name \in DOMAIN inFlight
  /\ inFlight[name] > 0
  /\ toolMetrics' = successCounted(toolMetrics, name, executionTime)
  /\ inFlight' = [inFlight EXCEPT ![name] = @ - 1]
  /\ called' = [op |-> "resolved", threw |-> FALSE]
  /\ MeterUnchanged

\* tool.execute rejected: the catch block
toolRejects(name) ==
  /\ name \in DOMAIN inFlight
  /\ inFlight[name] > 0
  /\ toolMetrics' = errorCounted(toolMetrics, name)
  /\ inFlight' = [inFlight EXCEPT ![name] = @ - 1]
  /\ called' = [op |-> "rejected", threw |-> TRUE]
  /\ MeterUnchanged

MeteredNames == {"read_file", "todo_read", "nope"}

totalUsage ==
  SumSeq([ i \in 1..Len(DefaultToolNames) |->
             toolMetrics[DefaultToolNames[i]].usageCount ])

\* Callers of executeTool whose calls overlap.
NextMeters ==
  \/ \E name \in MeteredNames :
       /\ name \in DOMAIN toolMetrics => totalUsage < MaxExecutions
       /\ ToolManager_executeTool(name)
  \/ \E name \in MeteredNames, executionTime \in {0, 3} :
       toolResolves(name, executionTime)
  \/ \E name \in MeteredNames : toolRejects(name)

SpecMeters == Init /\ [][NextMeters]_vars

\* ------------------------------------------------------------------------
\* Properties.

RoleCount(msgs, role) == Cardinality({ i \in 1..Len(msgs) : msgs[i].role = role })

HasToolCalls(m) == "toolCalls" \in DOMAIN m

\* The batch of apiResponse has been handled: every call has settled, the
\* results are in the history and the follow-up request is with fetch.
BatchDone ==
  /\ pc = "fetch"
  /\ apiResponse.ok
  /\ toolIndex > Len(apiResponse.tool_calls)

\* The JSON text a tool message holds for an outcome.
OutcomeText(outcome) ==
  IF outcome.threw
    THEN "{\"error\":\"" \o outcome.content \o "\"}"
    ELSE outcome.content

\* C1: once a batch of N >= 1 tool calls has been handled, the log ends with
\* the assistant message that carries the N calls followed by exactly N
\* tool-role messages, the i-th holding the outcome of the i-th call,
\* whichever of the calls returned, named an unregistered tool, failed
\* validation, had unparsable arguments or threw from execute.
C1_OneToolMessagePerCall ==
  BatchDone =>
    LET calls == apiResponse.tool_calls
        N == Len(calls)
        tail == sliceLast(Log, N + 1)
    IN  /\ N >= 1
        /\ Len(outcomes) = N
        /\ Len(Log) >= N + 1
        /\ tail[1] = Message("assistant", apiResponse.content, calls)
        /\ \A i \in 1..N :
             /\ tail[i + 1] = [role |-> "tool", content |-> OutcomeText(outcomes[i])]
             /\ toolMessages[i].tool_call_id = calls[i].id
             /\ toolMessages[i].content = tail[i + 1].content
        /\ RoleCount(appended, "tool") = N + RoleCount(SubSeq(appended, 1, Len(appended) - N - 1), "tool")

C1_Witness ==
  /\ BatchDone
  /\ Len(apiResponse.tool_calls) = 2
  /\ outcomes[1].threw
  /\ ~outcomes[2].threw

\* C2: a response with both a text content and tool calls does not end the
\* turn: its tool calls are executed and its text is ignored.
C2_TextWithToolCallsRunsTools ==
  (lastResponse.ok /\ lastResponse.content # "" /\ lastResponse.toolCalls > 0)
    => (pc # "idle" /\ result.state = "pending")

\* A tool-role message of `log` at position i answers a call of an assistant
\* tool-call message that is still in the log before it.
Answered(log, i) ==
  \E j \in 1..(i - 1) :
    /\ HasToolCalls(log[j])
    /\ i - j <= Len(log[j].toolCalls)
    /\ \A k \in (j + 1)..i : log[k].role = "tool"

NoOrphanToolResult(log) ==
  \A i \in 1..Len(log) : log[i].role = "tool" => Answered(log, i)

\* C3: no step leaves in the log a tool-role message whose assistant
\* tool-call message has been pruned away, and the step that prunes
\* (processMessage up to manageContextWindow) leaves the system prompt alone.
C3_RoundAtomicPruning ==
  [][ /\ NoOrphanToolResult(Log) => NoOrphanToolResult(Log')
      /\ (pc = "idle" /\ pc' = "managed") => systemPrompt' = systemPrompt ]_vars


\* The turn was rejected because the endpoint answered a request with a
\* non-success status.
RejectedByEndpoint ==
  /\ result.state = "rejected"
  /\ ~lastResponse.ok
  /\ lastResponse.status # "none"

CarriesStatus(message, status) ==
  \E text \in { "Too Many Requests", "Rate limit reached", "Internal Server Error" } :
    message = "API Error: " \o status \o " - " \o text

\* C4 as claimed: a non-success answer to any request of a turn rejects the
\* turn with an error carrying the status, and the turn has appended no
\* assistant message.
C4_NoAssistantMessageOnApiError ==
  RejectedByEndpoint =>
    /\ CarriesStatus(result.error, lastResponse.status)
    /\ RoleCount(appended, "assistant") = 0

\* C4 as amended: a non-success answer to any request of a turn rejects the
\* turn with an error carrying the status; the turn has appended no assistant
\* text message, and no assistant message at all when the failed request was
\* the first of the turn; when it was a follow-up request, the assistant
\* tool-call messages of the batches handled before it stay in the log.
C4_ApiErrorRejectsTurn ==
  RejectedByEndpoint =>
    /\ CarriesStatus(result.error, lastResponse.status)
    /\ sliceLast(Log, Len(appended)) = appended
    /\ \A i \in 1..Len(appended) :
         appended[i].role = "assistant" => HasToolCalls(appended[i])
    /\ sent = 1 => RoleCount(appended, "assistant") = 0
    /\ RoleCount(appended, "assistant") = sent - 1

C4_Witness ==
  /\ RejectedByEndpoint
  /\ lastResponse.status = "429"
  /\ sent = 2
  /\ RoleCount(appended, "assistant") = 1

\* C5: a turn with a non-empty string input appends exactly one user message
\* with that text, it is in the log before the first request is sent, and
\* nothing the turn appends later is a user message.
C5_OneUserMessageBeforeRequest ==
  (userInput.type = "string" /\ userInput.value # "") =>
    /\ Len(appended) >= 1
    /\ appended[1] = [role |-> "user", content |-> userInput.value]
    /\ RoleCount(appended, "user") = 1
    /\ sliceLast(Log, Len(appended)) = appended
    /\ sent = 0 => (pc = "managed" /\ Log[Len(Log)] = appended[1])

C5_Witness ==
  /\ userInput.type = "string" /\ userInput.value # ""
  /\ result.state = "resolved"
  /\ sent = 2
  /\ Len(appended) >= 4
  /\ Len(Log) > Len(appended)

\* C6: a processMessage call with a non-string or empty input rejects with
\* the invalid-input error, sends no request and leaves the log as it was.
C6_InvalidInputRejected ==
  [][ ( /\ pc = "idle"
        /\ metrics' # metrics \/ pc' # "idle"
        /\ userInput'.type # "string" \/ userInput'.value = "" )
      => ( /\ result' = [state |-> "rejected", error |-> "Invalid user input"]
           /\ pc' = "idle"
           /\ sent' = 0
           /\ request' = NoRequest
           /\ messageHistory' = messageHistory
           /\ heap' = heap ) ]_vars

C6_Witness ==
  /\ result = [state |-> "rejected", error |-> "Invalid user input"]
  /\ userInput.type = "number"
  /\ Len(Log) > 0
  /\ sent = 0


\* The first required field, in declaration order, that parsed arguments
\* lack (0: none): null has no field at all.
FirstLacking(required, parsed) ==
  IF parsed.kind = "null"
    THEN (IF Len(required) > 0 THEN 1 ELSE 0)
    ELSE FirstMissing(required, parsed.fields)

\* C7: for a call whose parsed arguments lack a required field of the tool,
\* execute is not invoked, the call's tool message holds
\* {error: "Required field '<field>' missing"} naming the first missing field
\* in declaration order, and the turn goes on to the follow-up request.
C7_MissingRequiredFieldReported ==
  \A i \in 1..Len(outcomes) :
    LET call == apiResponse.tool_calls[i]
        parsed == JSONparse(call.arguments)
        required == toolsGet(tools, call.name).inputSchema.required
    IN  ( /\ toolsHas(tools, call.name)
          /\ parsed.kind # "SyntaxError"
          /\ FirstLacking(required, parsed) # 0 )
        => /\ executions[i] = 0
           /\ toolMessages[i].content =
                "{\"error\":\"Required field '"
                  \o required[FirstLacking(required, parsed)] \o "' missing\"}"
           /\ pc \in {"tool", "fetch"}
           /\ Len(outcomes) = Len(apiResponse.tool_calls) => pc = "fetch"

\* The tool of the call is registered and its arguments parse to an object
\* with every required field.
ValidCall(call) ==
  /\ toolsHas(tools, call.name)
  /\ LET parsed == JSONparse(call.arguments)
     IN  /\ parsed.kind = "object"
         /\ \A k \in 1..Len(toolsGet(tools, call.name).inputSchema.required) :
              toolsGet(tools, call.name).inputSchema.required[k]
                \in DOMAIN parsed.fields

\* C8: within a batch, however the earlier calls ended, the loop goes on to
\* the next call; every call whose tool exists and whose arguments validate
\* has execute invoked exactly once (and no other call has); after the last
\* call the follow-up request is sent; and a turn rejects only for an invalid
\* input or a failed request, never for a failed tool call.
C8_FailuresDoNotStopBatch ==
  /\ \A i \in 1..Len(outcomes) :
       executions[i] = IF ValidCall(apiResponse.tool_calls[i]) THEN 1 ELSE 0
  /\ pc = "tool" =>
       /\ Len(outcomes) = toolIndex - 1
       /\ toolIndex <= Len(apiResponse.tool_calls)
       /\ result.state = "pending"
  /\ (apiResponse.ok /\ Len(outcomes) = Len(apiResponse.tool_calls)) =>
       /\ pc = "fetch"
       /\ sent >= 2
       /\ result.state = "pending"
       /\ sliceLast(request.messages, Len(toolMessages)) = toolMessages
  /\ result.state = "rejected" =>
       (result.error = "Invalid user input" \/ RejectedByEndpoint)

C8_Witness ==
  /\ BatchDone
  /\ Len(apiResponse.tool_calls) = 2
  /\ apiResponse.tool_calls[1].name = "nope"
  /\ executions = <<0, 1>>
  /\ outcomes[2].threw

\* C9 as claimed: every call that resolves has appended, as the last entry of
\* the log, an assistant message whose content is the returned content, and
\* returns the usage of the turn's final response.
C9_ResolvedAppendsReturnedText ==
  result.state = "resolved" =>
    /\ Len(Log) >= 1
    /\ Log[Len(Log)].role = "assistant"
    /\ ~HasToolCalls(Log[Len(Log)])
    /\ result.value.type = "text"
    /\ Log[Len(Log)].content = result.value.content
    /\ result.value.usage = lastResponse.usage

\* C9 as amended: every call that resolves returns the usage of the turn's
\* final response; one that resolves with a text result has appended, as the
\* last entry of the log, an assistant message whose content is the returned
\* content; one that resolves on a response with neither content nor tool
\* calls (type 'unknown') has appended no assistant message for it.
C9_ResolvedResult ==
  result.state = "resolved" =>
    /\ lastResponse.ok
    /\ result.value.usage = lastResponse.usage
    /\ Len(Log) >= 1 /\ Len(appended) >= 1
    /\ appended[Len(appended)] = Log[Len(Log)]
    /\ result.value.type = "text" =>
         /\ Log[Len(Log)] = [role |-> "assistant", content |-> result.value.content]
         /\ result.value.content = lastResponse.content
         /\ result.value.content # ""
    /\ result.value.type = "unknown" =>
         /\ lastResponse.content = "" /\ lastResponse.toolCalls = 0
         /\ Log[Len(Log)].role \in {"user", "tool"}
    /\ result.value.type \in {"text", "unknown"}

C9_Witness ==
  /\ result.state = "resolved"
  /\ result.value.type = "text"
  /\ result.value.usage = 9
  /\ sent = 2

\* C10: after saveSession, whatever is appended, pruned, cleared or set on
\* the live agent, the snapshot's log stays as it was saved, and loadSession
\* with the snapshot leaves the agent with exactly the saved log (replacing,
\* not merging) and the saved system prompt.
C10_SessionRoundTrip ==
  /\ activeSession # NoSession =>
       heap[activeSession.messageHistory] = savedLog
  /\ loaded # "no" =>
       /\ Log = savedLog
       /\ systemPrompt = activeSession.systemPrompt
       /\ activeSession # NoSession

C10_Witness ==
  /\ loaded = "restored"
  /\ Len(savedLog) > 0
  /\ Log = savedLog
  /\ metrics.totalRequests = 2

\* The messages buildAPIRequest starts from: the system prompt, if set, and
\* the log.
AllMessages ==
  (IF systemPrompt # "" THEN <<[role |-> "system", content |-> systemPrompt]>>
   ELSE <<>>) \o formatMessagesForAPI(Log)

\* C11: in every request handed to fetch (the first of a turn, a follow-up
\* after a tool batch, emergency-pruned or not), if a system prompt is set
\* then exactly one system-role message is present, it is at position 0 and
\* it holds the prompt, also when the log holds system-role messages.
C11_OneSystemMessageFirst ==
  (pc = "fetch" /\ systemPrompt # "") =>
    /\ Len(request.messages) >= 1
    /\ request.messages[1] = [role |-> "system", content |-> systemPrompt]
    /\ RoleCount(request.messages, "system") = 1

C11_Witness ==
  /\ pc = "fetch" /\ systemPrompt # ""
  /\ sent = 2
  /\ RoleCount(Log, "system") > 0
  /\ RequestTooLarge(AllMessages, tools)
  /\ Len(request.messages) < Len(AllMessages) + Len(toolMessages)

\* The number of completed calls that resolved.
Successes == Cardinality({ i \in 1..Len(settled) : settled[i] })

\* C12: after n >= 1 completed processMessage calls, successRate is
\* 100 * (number of calls that resolved) / n, in whatever order the calls
\* resolved and rejected.
C12_SuccessRateIsPercentage ==
  Len(settled) >= 1 =>
    /\ metrics.successRateDen > 0
    /\ metrics.successRateNum * Len(settled)
         = 100 * Successes * metrics.successRateDen

C12_Witness ==
  /\ settled = <<FALSE, TRUE, TRUE>>
  /\ metrics.successRateNum = 200 /\ metrics.successRateDen = 3

\* C13: totalRequests is the number of processMessage calls that have
\* completed: each call adds exactly 1 when it resolves or rejects (invalid
\* input included), however many tool-call rounds it took, and nothing else
\* changes it.
C13_OneRequestPerCall ==
  /\ metrics.totalRequests = (IF pc = "idle" THEN started ELSE started - 1)
  /\ metrics.totalRequests = Len(settled)

C13_Witness ==
  /\ metrics.totalRequests = 2
  /\ settled = <<TRUE, FALSE>>
  /\ toolCallsSeen = 2
  /\ result = [state |-> "rejected", error |-> "Invalid user input"]

\* C14: totalTokens is the sum of the usage the endpoint reported for the
\* turns that resolved: once a turn has resolved, it is at least the usage
\* that turn returned, which is greater than 0.
C14_TotalTokensTracksUsage ==
  result.state = "resolved" =>
    /\ result.value.usage > 0
    /\ metrics.totalTokens >= result.value.usage

UniqueNames(entries) ==
  \A i, j \in 1..Len(entries) : entries[i].name = entries[j].name => i = j

\* C15: registering a tool under a name already registered replaces the
\* earlier entry without an error: lookup of the name yields the tool
\* registered last, the registry and the tool definitions of every request
\* list each name once, and registerTool throws only for a tool without an
\* execute function.
C15_ReRegistrationReplaces ==
  /\ UniqueNames(tools)
  /\ pc = "fetch" =>
       /\ UniqueNames(request.tools)
       /\ request.tools = getGroqToolDefinitions(tools)
  /\ (registered # NoRegistration /\ ~registered.threw) =>
       /\ toolsHas(tools, registered.name)
       /\ toolsGet(tools, registered.name) = registered.tool
  /\ (registered # NoRegistration /\ registered.threw) =>
       registered.tool.execute # "function"
  /\ \A i \in 1..Len(outcomes) :
       apiResponse.tool_calls[i].name = "echo" =>
         outcomes[i].threw = (~toolsHas(tools, "echo")
                                \/ toolsGet(tools, "echo") = EchoTool)

C15_Witness ==
  /\ registered # NoRegistration
  /\ registered.replaced
  /\ registered.name = "echo" /\ registered.tool = ShoutTool
  /\ Len(tools) = 2
  /\ pc = "fetch" /\ sent = 2
  /\ ~outcomes[1].threw

\* The tool-role messages among `msgs` that carry no linking id.
ToolMessagesWithoutId(msgs) ==
  SelectSeq(msgs, LAMBDA m : m.role = "tool" /\ "tool_call_id" \notin DOMAIN m)

ToolMessagesWithId(msgs) ==
  SelectSeq(msgs, LAMBDA m : m.role = "tool" /\ "tool_call_id" \in DOMAIN m)

\* C19: in the follow-up request sent after a batch, the tool results that
\* carry a linking id are the results of the batch, one per call and with the
\* id of its call, and no result of the batch is in the request a second
\* time: the tool-role messages without an id are at most the results of
\* earlier batches that the log holds.
C19_ToolResultsOnceInFollowUp ==
  BatchDone =>
    LET N == Len(apiResponse.tool_calls)
        earlier == SubSeq(Log, 1, Len(Log) - N)
    IN  /\ ToolMessagesWithId(request.messages) = toolMessages
        /\ \A i \in 1..N :
             toolMessages[i].tool_call_id = apiResponse.tool_calls[i].id
        /\ Len(ToolMessagesWithoutId(request.messages))
             <= RoleCount(earlier, "tool")

\* C20: every tool-role message of the log carries a linking id, and the id
\* is that of a toolCalls entry of the assistant message that opened its
\* batch earlier in the log.
C20_ToolMessagesLinked ==
  \A i \in 1..Len(Log) :
    Log[i].role = "tool" =>
      /\ "tool_call_id" \in DOMAIN Log[i]
      /\ \E j \in 1..(i - 1) :
           /\ HasToolCalls(Log[j])
           /\ \A k \in (j + 1)..i : Log[k].role = "tool"
           /\ \E c \in 1..Len(Log[j].toolCalls) :
                Log[j].toolCalls[c].id = Log[i].tool_call_id

EditTools ==
  {"multi_edit", "batch_find_replace", "multi_file_refactor", "apply_template"}

\* C16: a call of multi_edit, batch_find_replace, multi_file_refactor or
\* apply_template with dry_run true leaves the filesystem as it was: no file
\* is written or created, no backup file appears, whatever the input.
C16_DryRunLeavesFilesystem ==
  [][ (runs' # runs /\ invoked'.tool \in EditTools /\ invoked'.input.dry_run)
        => files' = files /\ dirs' = dirs ]_vars

\* A dry run of multi_edit with backups requested has reported the creation
\* of a file.
C16_Witness ==
  /\ invoked.tool = "multi_edit"
  /\ invoked.input.dry_run
  /\ invoked.input.backup
  /\ ~returned.threw
  /\ \E i \in 1..Len(returned.results) : returned.results[i].created

FileTools == {"read_file", "write_file", "create_directory", "analyze_code"}

\* The path a call of a file tool asks for.
RequestedPath ==
  IF invoked.tool = "create_directory" THEN invoked.input.directory_path
  ELSE invoked.input.file_path

\* C17: with safeMode on, a call of a file tool of the ToolManager for a
\* path that resolves under one of the restrictedPaths fails with an error,
\* and no directory comes to exist under a restricted path.
C17_RestrictedPathsRefused ==
  config.safeMode =>
    /\ (invoked.tool \in FileTools /\ isRestrictedPath(config, RequestedPath))
         => returned.threw
    /\ \A d \in dirs \ InitialDirs : ~isRestrictedPath(config, d)

\* A create or an add of todo_write has left its mark on the list of the
\* registered TodoTool.
TodoWritten ==
  /\ currentTodoList.defined
  /\ currentTodoList.title # "Current Tasks" \/ Len(currentTodoList.tasks) > 0

\* C18: once todo_write has created a list or added a task, todo_read
\* returns success true and that list as it currently is.
C18_TodoReadReturnsCurrentList ==
  (invoked.tool = "todo_read" /\ TodoWritten) =>
    /\ returned.success
    /\ returned.todoList = formatTodoList(currentTodoList)

\* C21: every request handed to fetch, the follow-up requests included, has
\* an estimated size (characters of the serialised request / 3.5) of at most
\* contextWindowLimit tokens.
C21_RequestWithinLimit ==
  pc = "fetch" =>
    10 * RequestChars(request.messages, tools) <= 35 * contextWindowLimit

Rounds == Cardinality({ i \in 1..Len(appended) : HasToolCalls(appended[i]) })

\* C23: a turn sends one request at its start and one more per tool-call
\* round, with no cap on the rounds: after k rounds and a final answer it
\* has sent k + 1 requests and resolves; an answer that holds tool calls and
\* no text never ends the turn, so a turn answered only with such answers
\* stays pending.
C23_OneRequestPerRound ==
  /\ pc = "managed" => sent = 0
  /\ pc = "tool" => sent = Rounds
  /\ pc = "fetch" => sent = Rounds + 1
  /\ (pc = "idle" /\ result.state = "resolved") =>
       /\ sent = Rounds + 1
       /\ lastResponse.ok
       /\ lastResponse.content # "" \/ lastResponse.toolCalls = 0
  /\ (pc = "idle" /\ result.state = "rejected") => ~lastResponse.ok

\* A turn of two rounds has resolved on its third request.
C23_Witness ==
  /\ pc = "idle"
  /\ result.state = "resolved"
  /\ Rounds = 2
  /\ sent = 3

\* C24: a processMessage call made while another call is suspended at an
\* await is neither blocked nor rejected for that: if its input is valid its
\* user message goes onto the shared log at once and its request is built
\* from that log.
C24_OverlappingTurnProceeds ==
  [][ (overlapping'.turns # overlapping.turns /\ ValidInput(overlapping'.input)) =>
        /\ overlapping'.pc = "fetch"
        /\ overlapping'.result.state = "pending"
        /\ Len(Log') > 0
        /\ Log'[Len(Log')] = [role |-> "user", content |-> overlapping'.input.value]
        /\ overlapping'.request.messages[Len(overlapping'.request.messages)]
             = [role |-> "user", content |-> overlapping'.input.value] ]_vars

\* The user message of the second call sits between the assistant tool-call
\* message of the first call and the results of that batch.
C24_Witness ==
  \E i, j, k \in 1..Len(Log) :
    /\ i < j /\ j < k
    /\ HasToolCalls(Log[i])
    /\ Log[j] = [role |-> "user", content |-> overlapping.input.value]
    /\ overlapping.turns > 0
    /\ Log[k].role = "tool"

C26_FailedBatchRestored ==
  [][ ( /\ runs' # runs
        /\ invoked'.tool = "multi_edit"
        /\ invoked'.input.backup
        /\ ~invoked'.input.dry_run
        /\ returned'.threw ) =>
        \A i \in 1..Len(invoked'.input.edits) :
          LET p == pathResolve(invoked'.input.edits[i].file_path)
          IN  IF p \in DOMAIN files
                THEN p \in DOMAIN files' /\ files'[p] = files[p]
                ELSE p \notin DOMAIN files' ]_vars


\* The main tasks of the workflows started so far.
MainTasks ==
  { t \in DOMAIN taskManager.tasks :
      /\ taskManager.tasks[t].workflowId # ""
      /\ taskManager.tasks[t].parentId = 0 }

StepsOf(main) == taskManager.tasks[main].subtasks

\* Every step of the workflow has status 'completed' now.
AllStepsCompleted(main) ==
  \A i \in 1..Len(StepsOf(main)) :
    taskManager.tasks[StepsOf(main)[i]].status = "completed"

\* Every step of the workflow has been completed: progress 100 is what the
\* completing call left, and no later call has changed it.
AllStepsDone(main) ==
  \A i \in 1..Len(StepsOf(main)) :
    taskManager.tasks[StepsOf(main)[i]].progress = 100

HistoryOf(main) ==
  { i \in 1..Len(taskManager.taskHistory) :
      taskManager.taskHistory[i].taskId = main }

WorkflowCompleted(main) ==
  /\ ~taskManager.activeWorkflow.active
  /\ Cardinality(HistoryOf(main)) = 1
  /\ taskManager.tasks[main].status = "completed"
  /\ taskManager.tasks[main].progress = 100

\* C27: once every step of a started workflow has been completed, in whatever
\* order, the workflow is completed: activeWorkflow is null, taskHistory holds
\* one record for it, the main task is 'completed' with progress 100, and
\* every completed step still has status 'completed'.
C27_WorkflowCompletes ==
  \A main \in MainTasks :
    AllStepsDone(main) => WorkflowCompleted(main) /\ AllStepsCompleted(main)

\* The dependencies of task d other than x are all 'completed'.
OthersCompleted(d, x) ==
  \A i \in 1..Len(taskManager.tasks[d].dependencies) :
    LET dep == taskManager.tasks[d].dependencies[i]
    IN  dep # x => taskManager.tasks[dep].status = "completed"

\* Task x is the last dependency of the pending task d that is not completed.
LastDependency(d, x) ==
  /\ d # x
  /\ taskManager.tasks[d].status = "pending"
  /\ Includes(taskManager.tasks[d].dependencies, x)
  /\ taskManager.tasks[x].status # "completed"
  /\ OthersCompleted(d, x)

\* C28: when a completeTask or updateTaskProgress call completes the last
\* dependency of a pending task that was not yet completed, the dependent
\* task's status becomes 'ready'.
C28_DependentBecomesReady ==
  [][ \A d \in DOMAIN taskManager.tasks, x \in DOMAIN taskManager.tasks :
        ( /\ called'.op \in {"completeTask", "updateTaskProgress"}
          /\ LastDependency(d, x)
          /\ taskManager'.tasks[x].status = "completed" ) =>
          taskManager'.tasks[d].status = "ready" ]_vars

\* The state of the manager that exportTasks put into the value kept.
ExportedState ==
  [ tasks |-> savedTasks.tasks, workflows |-> savedTasks.workflows,
    activeWorkflow |-> savedTasks.activeWorkflow,
    taskHistory |-> savedTasks.taskHistory ]

\* C29: importTasks of what exportTasks returned replaces the manager's state:
\* after the import its tasks, workflows, activeWorkflow (a null one too) and
\* taskHistory are those of the exporting manager at the export, whatever the
\* importing manager held before.
C29_ImportReplacesState ==
  [][ called'.op = "importTasks" => taskManager' = ExportedState ]_vars

\* The counters of tool t account for every call of it that got past the
\* lookup: each has succeeded, has failed, or is still awaiting the tool.
CountersAgree(t) ==
  toolMetrics[t].usageCount =
    toolMetrics[t].successCount + toolMetrics[t].errorCount + inFlight[t]

\* C30: for every tool of the ToolManager, in every state of every
\* interleaving of executeTool calls, usageCount = successCount + errorCount
\* + the executions of it in flight; and an executeTool call with a name that
\* is not registered rejects and leaves every tool's counters as they were.
C30_CountersAgree ==
  /\ [](\A t \in DOMAIN toolMetrics : CountersAgree(t))
  /\ [][ (called'.op = "executeTool" /\ called'.threw) =>
           UNCHANGED << toolMetrics, inFlight >> ]_vars

\* A call with an unregistered name has just been rejected while read_file
\* has one execution that succeeded, one that failed and one in flight.
C30_Witness ==
  /\ called = [op |-> "executeTool", threw |-> TRUE]
  /\ toolMetrics["read_file"].successCount = 1
  /\ toolMetrics["read_file"].errorCount = 1
  /\ inFlight["read_file"] = 1

====
